---- MODULE Spec2Model ----
(***************************************************************************)
(* The data-access layer of the facilities dashboard: the lazily built     *)
(* Supabase client (lib/supabase.ts), the read fetchers that sit on it,    *)
(* the auth/profile operations (auth module) and the avatar upload of the  *)
(* settings page, and the Electricity, STP and Settings pages' loading.    *)
(*                                                                         *)
(* Execution is one JavaScript event loop: an async function runs without  *)
(* interruption from its call to its first await and from one await to the *)
(* next, so every action below is one such run.  Several calls may be      *)
(* pending at an await at the same time; these are the tasks.              *)
(*                                                                         *)
(* The store is supabase-js.  A query, an auth call or a storage call      *)
(* resolves to {data, error}; none of the calls made here asks for         *)
(* throwOnError, so a failure the store reports arrives in the error field.*)
(***************************************************************************)
EXTENDS Integers, Sequences, FiniteSets, TLC

VARIABLES
    env,             \* process.env: the two NEXT_PUBLIC_SUPABASE_* entries
    supabaseClient,  \* the module-level `let supabaseClient`
    created,         \* number of createClient calls made so far
    task,            \* the pending async calls, one record per caller
    fn,              \* the last application of a pure transform: [name, arg, ret]
    page             \* the mounted page component and its React state

vars == <<env, supabaseClient, created, task, fn, page>>

(***************************************************************************)
(* JavaScript values.  Each kind has its own field, so values of different *)
(* kinds compare unequal.                                                  *)
(***************************************************************************)
JNull == [t |-> "null"]
JUndefined == [t |-> "undefined"]
JNaN == [t |-> "NaN"]
JNum(n) == [t |-> "num", n |-> n]
JStr(s) == [t |-> "str", s |-> s]
JArr(a) == [t |-> "arr", a |-> a]
JObj(o) == [t |-> "obj", o |-> o]

\* ToBoolean
Truthy(v) ==
    CASE v.t = "null" -> FALSE
      [] v.t = "undefined" -> FALSE
      [] v.t = "NaN" -> FALSE
      [] v.t = "num" -> v.n # 0
      [] v.t = "str" -> v.s # ""
      [] OTHER -> TRUE

\* a || b
Or(a, b) == IF Truthy(a) THEN a ELSE b

Digits == <<"0", "1", "2", "3", "4", "5", "6", "7", "8", "9">>

IsDigit(c) == \E d \in 1..Len(Digits) : Digits[d] = c

DigitVal(c) == (CHOOSE d \in 1..Len(Digits) : Digits[d] = c) - 1

AllDigits(s) == \A i \in 1..Len(s) : IsDigit(SubSeq(s, i, i))

RECURSIVE ParseDigits(_, _)
ParseDigits(s, acc) ==
    IF s = "" THEN acc
    ELSE ParseDigits(SubSeq(s, 2, Len(s)), acc * 10 + DigitVal(SubSeq(s, 1, 1)))

\* StringToNumber on the strings used here: the empty string is 0, a string
\* of decimal digits is its value, anything else is NaN.
StringToNumber(s) ==
    IF s = "" THEN JNum(0)
    ELSE IF AllDigits(s) THEN JNum(ParseDigits(s, 0))
    ELSE JNaN

\* Number(v)
Number(v) ==
    CASE v.t = "null" -> JNum(0)
      [] v.t = "num" -> v
      [] v.t = "str" -> StringToNumber(v.s)
      [] OTHER -> JNaN

RECURSIVE NatToString(_)
NatToString(n) ==
    IF n < 10 THEN Digits[n + 1]
    ELSE NatToString(n \div 10) \o Digits[(n % 10) + 1]

\* String(v)
String(v) ==
    CASE v.t = "num" -> IF v.n < 0 THEN "-" \o NatToString(-v.n) ELSE NatToString(v.n)
      [] v.t = "str" -> v.s
      [] v.t = "null" -> "null"
      [] v.t = "NaN" -> "NaN"
      [] OTHER -> "undefined"

\* s.startsWith(p)
StartsWith(s, p) == Len(s) >= Len(p) /\ SubSeq(s, 1, Len(p)) = p

(***************************************************************************)
(* Configuration and the client accessor.                                  *)
(***************************************************************************)
supabaseUrl == Or(env.NEXT_PUBLIC_SUPABASE_URL, JStr("")).s

supabaseAnonKey == Or(env.NEXT_PUBLIC_SUPABASE_ANON_KEY, JStr("")).s

\* s.includes(p)
Contains(s, p) == \E i \in 1..(Len(s) - Len(p) + 1) : SubSeq(s, i, i + Len(p) - 1) = p

\* isValidSupabaseKey with includes in place of startsWith
isValidSupabaseKey_Includes(key) == Len(key) > 0 /\ Contains(key, "eyJ")

isValidSupabaseKey(key) == Len(key) > 0 /\ StartsWith(key, "eyJ")

isSupabaseConfigured ==
    LET urlValid == Len(supabaseUrl) > 0 /\ StartsWith(supabaseUrl, "https://")
        keyValid == isValidSupabaseKey(supabaseAnonKey)
    IN  urlValid /\ keyValid

NoClient == [t |-> "null"]

\* createClient(url, key): a new instance, told apart by its serial number
createClient(url, key) == [t |-> "client", serial |-> created + 1, url |-> url, key |-> key]

\* getSupabaseClient without the `if (!supabaseClient)` test
getSupabaseClient_NoCache ==
    IF ~isSupabaseConfigured
    THEN [ret |-> NoClient, supabaseClient |-> supabaseClient, created |-> created]
    ELSE LET c == createClient(supabaseUrl, supabaseAnonKey)
         IN  [ret |-> c, supabaseClient |-> c, created |-> created + 1]

\* One call of getSupabaseClient in the current state: what it returns and
\* what it leaves in the module-level variable.
getSupabaseClient ==
    IF ~isSupabaseConfigured
    THEN [ret |-> NoClient, supabaseClient |-> supabaseClient, created |-> created]
    ELSE IF supabaseClient = NoClient
         THEN LET c == createClient(supabaseUrl, supabaseAnonKey)
              IN  [ret |-> c, supabaseClient |-> c, created |-> created + 1]
         ELSE [ret |-> supabaseClient, supabaseClient |-> supabaseClient, created |-> created]

(***************************************************************************)
(* Tasks: one record per async caller.                                     *)
(*   op     the exported function being run ("none" when idle)             *)
(*   pc     idle, an await label, or done                                  *)
(*   client what getSupabaseClient returned to this call                   *)
(*   arg    the arguments of the call                                      *)
(*   sent   the store calls this invocation has issued, in order           *)
(*   got    the store's answers, in order                                  *)
(*   out    how the call settled: none, return v, or throw e               *)
(***************************************************************************)
NumTasks == 2

Tasks == 1..NumTasks

Return(v) == [kind |-> "return", val |-> v]

Throw(e) == [kind |-> "throw", err |-> e]

Pending == [kind |-> "none"]

IdleTask ==
    [op |-> "none", pc |-> "idle", client |-> NoClient, arg |-> <<>>,
     sent |-> <<>>, got |-> <<>>, out |-> Pending]

\* Begin with the query built and sent before the client is tested
Begin_QueryFirst(t, op, arg, early, q, pc) ==
    /\ task[t].pc = "idle"
    /\ LET g == getSupabaseClient IN
       /\ supabaseClient' = g.supabaseClient
       /\ created' = g.created
       /\ task' = [task EXCEPT ![t] =
              IF g.ret = NoClient
              THEN [op |-> op, pc |-> "done", client |-> g.ret, arg |-> arg,
                    sent |-> <<q>>, got |-> <<>>, out |-> early]
              ELSE [op |-> op, pc |-> pc, client |-> g.ret, arg |-> arg,
                    sent |-> <<q>>, got |-> <<>>, out |-> Pending]]
    /\ UNCHANGED <<env, fn, page>>

\* The synchronous prefix of a call: the client is fetched, and either the
\* call settles at once with `early` or it issues `q` and suspends at `pc`.
Begin(t, op, arg, early, q, pc) ==
    /\ task[t].pc = "idle"
    /\ LET g == getSupabaseClient IN
       /\ supabaseClient' = g.supabaseClient
       /\ created' = g.created
       /\ task' = [task EXCEPT ![t] =
              IF g.ret = NoClient
              THEN [op |-> op, pc |-> "done", client |-> g.ret, arg |-> arg,
                    sent |-> <<>>, got |-> <<>>, out |-> early]
              ELSE [op |-> op, pc |-> pc, client |-> g.ret, arg |-> arg,
                    sent |-> <<q>>, got |-> <<>>, out |-> Pending]]
    /\ UNCHANGED <<env, fn, page>>

\* The call settles with `out` after the store answered `reply`.
Settle(t, reply, out) ==
    /\ task' = [task EXCEPT ![t].pc = "done",
                            ![t].got = Append(task[t].got, reply),
                            ![t].out = out]
    /\ UNCHANGED <<env, supabaseClient, created, fn, page>>

\* The caller has taken the result; the task is free for another call.
Finish(t) ==
    /\ task[t].pc = "done"
    /\ task' = [task EXCEPT ![t] = IdleTask]
    /\ UNCHANGED <<env, supabaseClient, created, fn, page>>

(***************************************************************************)
(* The store's answers.                                                    *)
(***************************************************************************)
NoError == [t |-> "null"]

PostgrestError(message, code) ==
    [t |-> "error", name |-> "PostgrestError", message |-> message, code |-> code]

AuthError(message) == [t |-> "error", name |-> "AuthApiError", message |-> message]

StorageError(message) == [t |-> "error", name |-> "StorageApiError", message |-> message]

\* new Error(message)
Error(message) == [t |-> "error", name |-> "Error", message |-> message]

QueryErrors == {PostgrestError("permission denied for table", "42501")}

\* The three shapes the asset fetcher's message distinguishes.
AssetErrors ==
    QueryErrors \cup {PostgrestError("", "PGRST301"), PostgrestError("", "")}

Failed(e) == [error |-> e, data |-> JNull, count |-> JNull]

Rows(rs) == [error |-> NoError, data |-> JArr(rs), count |-> JNum(Len(rs))]

NoData == [error |-> NoError, data |-> JNull, count |-> JNull]

\* data || []
OrEmpty(data) == IF data.t = "arr" THEN data.a ELSE <<>>

\* .from(table).select(columns).order(column, {ascending})
Select(table, columns, order, ascending) ==
    [api |-> "select", table |-> table, columns |-> columns,
     order |-> order, ascending |-> ascending]

ListReplies(sample) ==
    {Failed(e) : e \in QueryErrors} \cup {NoData, Rows(<<>>), Rows(<<sample>>)}

(***************************************************************************)
(* Assets.                                                                 *)
(***************************************************************************)
\* The columns of mb_assets that transformAsset reads.
AssetRow(id, name, type, category, location, building, status, install, tag, assetId) ==
    [id |-> id, asset_name |-> name, asset_type |-> type, category |-> category,
     location_name |-> location, building |-> building, status |-> status,
     install_date |-> install, asset_tag |-> tag, asset_id |-> assetId]

\* a ?? b
Nullish(a, b) == IF a.t \in {"null", "undefined"} THEN b ELSE a

\* transformAsset with ?? in place of ||
transformAsset_Nullish(dbAsset) ==
    [id |-> JStr(String(dbAsset.id)),
     name |-> Nullish(dbAsset.asset_name, JStr("Unknown Asset")),
     type |-> Nullish(Nullish(dbAsset.asset_type, dbAsset.category), JStr("General")),
     location |-> Nullish(Nullish(dbAsset.location_name, dbAsset.building),
                          JStr("Unknown Location")),
     status |-> Nullish(dbAsset.status, JStr("Active")),
     purchaseDate |-> Nullish(dbAsset.install_date, JStr("")),
     value |-> JNum(0),
     serialNumber |-> Nullish(Nullish(dbAsset.asset_tag, dbAsset.asset_id), JStr("")),
     lastService |-> JStr("")]

transformAsset(dbAsset) ==
    [id |-> JStr(String(dbAsset.id)),
     name |-> Or(dbAsset.asset_name, JStr("Unknown Asset")),
     type |-> Or(Or(dbAsset.asset_type, dbAsset.category), JStr("General")),
     location |-> Or(Or(dbAsset.location_name, dbAsset.building), JStr("Unknown Location")),
     status |-> Or(dbAsset.status, JStr("Active")),
     purchaseDate |-> Or(dbAsset.install_date, JStr("")),
     value |-> JNum(0),
     serialNumber |-> Or(Or(dbAsset.asset_tag, dbAsset.asset_id), JStr("")),
     lastService |-> JStr("")]

PumpA ==
    AssetRow(JNum(1), JStr("Pump A"), JStr("Pump"), JStr("HVAC"), JStr("Plant Room"),
             JStr("B1"), JStr("Active"), JStr("2020-01-01"), JStr("TAG-1"), JStr("A-1"))

BareAsset ==
    AssetRow(JNum(2), JNull, JNull, JNull, JNull, JNull, JNull, JNull, JNull, JNull)

AssetReplies ==
    {Failed(e) : e \in AssetErrors}
        \cup {NoData, Rows(<<>>), [Rows(<<PumpA, BareAsset>>) EXCEPT !.count = JNum(7)]}

AssetArgs ==
    {[page |-> 1, pageSize |-> 50, search |-> ""], [page |-> 2, pageSize |-> 2, search |-> "pump"]}

\* AssetQuery with the rows asked for in descending order
AssetQuery_Descending(arg) ==
    LET start == (arg.page - 1) * arg.pageSize
        end == start + arg.pageSize - 1
    IN  [api |-> "select", table |-> "mb_assets", columns |-> "*", count |-> "exact",
         or |-> IF arg.search # ""
                THEN <<[column |-> "asset_name", ilike |-> "%" \o arg.search \o "%"],
                       [column |-> "location_name", ilike |-> "%" \o arg.search \o "%"],
                       [column |-> "asset_tag", ilike |-> "%" \o arg.search \o "%"],
                       [column |-> "category", ilike |-> "%" \o arg.search \o "%"]>>
                ELSE <<>>,
         order |-> "asset_name", ascending |-> FALSE, range |-> <<start, end>>]

\* AssetQuery with `end` one row too far
AssetQuery_OffByOne(arg) ==
    LET start == (arg.page - 1) * arg.pageSize
        end == start + arg.pageSize
    IN  [api |-> "select", table |-> "mb_assets", columns |-> "*", count |-> "exact",
         or |-> IF arg.search # ""
                THEN <<[column |-> "asset_name", ilike |-> "%" \o arg.search \o "%"],
                       [column |-> "location_name", ilike |-> "%" \o arg.search \o "%"],
                       [column |-> "asset_tag", ilike |-> "%" \o arg.search \o "%"],
                       [column |-> "category", ilike |-> "%" \o arg.search \o "%"]>>
                ELSE <<>>,
         order |-> "asset_name", ascending |-> TRUE, range |-> <<start, end>>]

\* The query getAssetsFromSupabase builds from its arguments.
AssetQuery(arg) ==
    LET start == (arg.page - 1) * arg.pageSize
        end == start + arg.pageSize - 1
    IN  [api |-> "select", table |-> "mb_assets", columns |-> "*", count |-> "exact",
         or |-> IF arg.search # ""
                THEN <<[column |-> "asset_name", ilike |-> "%" \o arg.search \o "%"],
                       [column |-> "location_name", ilike |-> "%" \o arg.search \o "%"],
                       [column |-> "asset_tag", ilike |-> "%" \o arg.search \o "%"],
                       [column |-> "category", ilike |-> "%" \o arg.search \o "%"]>>
                ELSE <<>>,
         order |-> "asset_name", ascending |-> TRUE, range |-> <<start, end>>]

ValveB ==
    AssetRow(JNum(3), JStr("Valve B"), JStr("Valve"), JStr("Plumbing"), JStr("Yard"),
             JNull, JStr("Active"), JNull, JStr("TAG-3"), JStr("A-3"))

Uppers == "ABCDEFGHIJKLMNOPQRSTUVWXYZ"

Lowers == "abcdefghijklmnopqrstuvwxyz"

LowerChar(c) ==
    IF \E i \in 1..Len(Uppers) : SubSeq(Uppers, i, i) = c
    THEN LET i == CHOOSE i \in 1..Len(Uppers) : SubSeq(Uppers, i, i) = c
         IN  SubSeq(Lowers, i, i)
    ELSE c

RECURSIVE ToLower(_)
ToLower(s) ==
    IF s = "" THEN "" ELSE LowerChar(SubSeq(s, 1, 1)) \o ToLower(SubSeq(s, 2, Len(s)))

\* The store's LIKE on lower-cased operands: % (written * as well in a
\* PostgREST filter) stands for any run of characters, _ for any one.
RECURSIVE Like(_, _)
Like(pattern, s) ==
    IF pattern = "" THEN s = ""
    ELSE LET c == SubSeq(pattern, 1, 1)
             rest == SubSeq(pattern, 2, Len(pattern))
             tail == SubSeq(s, 2, Len(s))
         IN  IF c \in {"%", "*"}
             THEN Like(rest, s) \/ (s # "" /\ Like(pattern, tail))
             ELSE IF c = "_"
             THEN s # "" /\ Like(rest, tail)
             ELSE s # "" /\ SubSeq(s, 1, 1) = c /\ Like(rest, tail)

\* column.ilike.pattern on one row; a null column matches nothing
ILike(value, pattern) ==
    value.t = "str" /\ Like(ToLower(pattern), ToLower(value.s))

\* The rows of `table` the store keeps under the query's or-filter.
Filtered(q, table) ==
    IF q.or = <<>> THEN table
    ELSE SelectSeq(table,
             LAMBDA row : \E i \in 1..Len(q.or) : ILike(row[q.or[i].column], q.or[i].ilike))

\* What the call settles with once the store has answered.
AssetsOutcome(reply) ==
    IF reply.error # NoError
    THEN Throw(Error("Supabase error: " \o
             Or(Or(JStr(reply.error.message), JStr(reply.error.code)),
                JStr("Unknown error")).s))
    ELSE LET rows == OrEmpty(reply.data)
         IN  Return([data |-> [i \in 1..Len(rows) |-> transformAsset(rows[i])],
                     count |-> Or(reply.count, JNum(0))])

getAssetsFromSupabase(t) ==
    \/ /\ task[t].pc = "idle"
       /\ \E arg \in AssetArgs :
              Begin(t, "getAssetsFromSupabase", arg,
                 Return([data |-> <<>>, count |-> JNum(0)]), AssetQuery(arg), "await")
    \/ /\ task[t].op = "getAssetsFromSupabase"
       /\ task[t].pc = "await"
       /\ \E reply \in AssetReplies : Settle(t, reply, AssetsOutcome(reply))

(***************************************************************************)
(* Contractor and AMC tables: one query, rows returned as they are.        *)
(***************************************************************************)
SampleRow(table) == [id |-> JStr("1"), table |-> table]

\* ListOutcome with the error thrown, as the asset fetcher does
ListOutcome_Throws(reply) ==
    IF reply.error # NoError THEN Throw(reply.error) ELSE Return(OrEmpty(reply.data))

\* if (error) return []; return data || []
ListOutcome(reply) ==
    IF reply.error # NoError THEN Return(<<>>) ELSE Return(OrEmpty(reply.data))

ListFetcher(t, op, q) ==
    \/ /\ task[t].pc = "idle"
       /\ Begin(t, op, <<>>, Return(<<>>), q, "await")
    \/ /\ task[t].op = op
       /\ task[t].pc = "await"
       /\ \E reply \in ListReplies(SampleRow(q.table)) : Settle(t, reply, ListOutcome(reply))

getContractorTrackerData(t) ==
    /\ task[t].pc \in {"idle", "await"}
    /\ ListFetcher(t, "getContractorTrackerData",
                Select("Contractor_Tracker", "*", "Contractor", TRUE))

getContractorSummary(t) ==
    /\ task[t].pc \in {"idle", "await"}
    /\ ListFetcher(t, "getContractorSummary", Select("amc_contractor_summary", "*", "no", TRUE))

getContractorDetails(t) ==
    /\ task[t].pc \in {"idle", "await"}
    /\ ListFetcher(t, "getContractorDetails",
                Select("amc_contractor_details", "*", "contractor", TRUE))

getContractorExpiry(t) ==
    /\ task[t].pc \in {"idle", "await"}
    /\ ListFetcher(t, "getContractorExpiry",
                Select("amc_contractor_expiry", "*", "days_remaining", TRUE))

getContractorPricing(t) ==
    /\ task[t].pc \in {"idle", "await"}
    /\ ListFetcher(t, "getContractorPricing",
                Select("amc_contractor_pricing", "*", "contractor", TRUE))

getAmcContracts(t) ==
    /\ task[t].pc \in {"idle", "await"}
    /\ ListFetcher(t, "getAmcContracts", Select("amc_contracts", "*", "name", TRUE))

getAmcExpiry(t) ==
    /\ task[t].pc \in {"idle", "await"}
    /\ ListFetcher(t, "getAmcExpiry",
                Select("amc_expiry", "*, amc_contracts(name, company)", "expiry_date", TRUE))

getAmcContacts(t) ==
    /\ task[t].pc \in {"idle", "await"}
    /\ ListFetcher(t, "getAmcContacts",
                Select("amc_contacts", "*, amc_contracts(name)", "contact_name", TRUE))

getAmcPricing(t) ==
    /\ task[t].pc \in {"idle", "await"}
    /\ ListFetcher(t, "getAmcPricing",
                Select("amc_pricing", "*, amc_contracts(name)", "contract_value", FALSE))

(***************************************************************************)
(* Electricity: meters, then readings, joined by meter id.                 *)
(***************************************************************************)
ElectricityMeter(id, name, type, account) ==
    [id |-> id, name |-> name, meter_type |-> type, account_number |-> account]

ElectricityReading(meterId, month, consumption) ==
    [meter_id |-> meterId, month |-> month, consumption |-> consumption]

\* obj[key] = value on an object held as a function from property names
Put(obj, key, value) ==
    [k \in DOMAIN obj \cup {key} |-> IF k = key THEN value ELSE obj[k]]

\* obj[key] || {}
GetOrEmpty(obj, key) == IF key \in DOMAIN obj THEN obj[key] ELSE <<>>

\* AddReading with the consumption stored as it came
AddReading_NoCoerce(readingsByMeter, reading) ==
    LET key == String(reading.meter_id)
        inner == GetOrEmpty(readingsByMeter, key)
    IN  Put(readingsByMeter, key, Put(inner, reading.month, reading.consumption))

\* AddReading that keeps a month's first value
AddReading_FirstWins(readingsByMeter, reading) ==
    LET key == String(reading.meter_id)
        inner == GetOrEmpty(readingsByMeter, key)
    IN  IF reading.month \in DOMAIN inner THEN readingsByMeter
        ELSE Put(readingsByMeter, key,
                 Put(inner, reading.month, Or(Number(reading.consumption), JNum(0))))

\* The body of the forEach: property names are the string forms of the ids.
AddReading(readingsByMeter, reading) ==
    LET key == String(reading.meter_id)
        inner == GetOrEmpty(readingsByMeter, key)
    IN  Put(readingsByMeter, key,
            Put(inner, reading.month, Or(Number(reading.consumption), JNum(0))))

\* readingsByMeter after the forEach over the first n readings
RECURSIVE GroupReadings(_, _)
GroupReadings(readings, n) ==
    IF n = 0 THEN <<>>
    ELSE AddReading(GroupReadings(readings, n - 1), readings[n])

\* Lines 473-492: group the readings, then map the meters.
JoinReadings(meters, readings) ==
    LET readingsByMeter == GroupReadings(readings, Len(readings))
    IN  [i \in 1..Len(meters) |->
            [id |-> meters[i].id,
             name |-> meters[i].name,
             account_number |-> Or(meters[i].account_number, JStr("")),
             type |-> meters[i].meter_type,
             readings |-> GetOrEmpty(readingsByMeter, String(meters[i].id))]]

MeterM1 == ElectricityMeter(JNum(1), JStr("M1"), JStr("Main"), JNull)

MeterM2 == ElectricityMeter(JNum(2), JStr("M2"), JStr("Sub"), JStr("ACC-2"))

MeterReplies ==
    {Failed(e) : e \in QueryErrors} \cup {NoData, Rows(<<>>), Rows(<<MeterM1, MeterM2>>)}

ReadingReplies ==
    {Failed(e) : e \in QueryErrors}
        \cup {NoData,
              Rows(<<ElectricityReading(JNum(1), "Jan-25", JStr("120")),
                     ElectricityReading(JNum(3), "Jan-25", JNum(7))>>)}

\* getElectricityMetersFromSupabase without the test for an empty meters list
getElectricityMetersFromSupabase_NoEmptyTest(t) ==
    \/ /\ task[t].pc = "idle"
       /\ Begin(t, "getElectricityMetersFromSupabase", <<>>, Return(<<>>),
             Select("electricity_meters", "*", "name", TRUE), "awaitMeters")
    \/ /\ task[t].op = "getElectricityMetersFromSupabase"
       /\ task[t].pc = "awaitMeters"
       /\ \E reply \in MeterReplies :
              IF reply.error # NoError
              THEN Settle(t, reply, Return(<<>>))
              ELSE /\ task' = [task EXCEPT
                          ![t].pc = "awaitReadings",
                          ![t].got = Append(task[t].got, reply),
                          ![t].sent = Append(task[t].sent,
                              [api |-> "select", table |-> "electricity_readings",
                               columns |-> "*"])]
                   /\ UNCHANGED <<env, supabaseClient, created, fn, page>>
    \/ /\ task[t].op = "getElectricityMetersFromSupabase"
       /\ task[t].pc = "awaitReadings"
       /\ \E reply \in ReadingReplies :
              Settle(t, reply,
                     IF reply.error # NoError THEN Return(<<>>)
                     ELSE Return(JoinReadings(OrEmpty(task[t].got[1].data),
                                              OrEmpty(reply.data))))

getElectricityMetersFromSupabase(t) ==
    \/ /\ task[t].pc = "idle"
       /\ Begin(t, "getElectricityMetersFromSupabase", <<>>, Return(<<>>),
             Select("electricity_meters", "*", "name", TRUE), "awaitMeters")
    \/ /\ task[t].op = "getElectricityMetersFromSupabase"
       /\ task[t].pc = "awaitMeters"
       /\ \E reply \in MeterReplies :
              IF reply.error # NoError \/ Len(OrEmpty(reply.data)) = 0
              THEN Settle(t, reply, Return(<<>>))
              ELSE /\ task' = [task EXCEPT
                          ![t].pc = "awaitReadings",
                          ![t].got = Append(task[t].got, reply),
                          ![t].sent = Append(task[t].sent,
                              [api |-> "select", table |-> "electricity_readings",
                               columns |-> "*"])]
                   /\ UNCHANGED <<env, supabaseClient, created, fn, page>>
    \/ /\ task[t].op = "getElectricityMetersFromSupabase"
       /\ task[t].pc = "awaitReadings"
       /\ \E reply \in ReadingReplies :
              Settle(t, reply,
                     IF reply.error # NoError THEN Return(<<>>)
                     ELSE Return(JoinReadings(task[t].got[1].data.a, OrEmpty(reply.data))))

(***************************************************************************)
(* STP operations.                                                         *)
(***************************************************************************)
STPRow(id, date, inlet, tse, trips, income, savings, impact) ==
    [id |-> id, date |-> date, inlet_sewage |-> inlet, tse_for_irrigation |-> tse,
     tanker_trips |-> trips, generated_income |-> income, water_savings |-> savings,
     total_impact |-> impact]

\* x != null ? Number(x) : undefined
NumberOrUndefined(x) ==
    IF x.t \notin {"null", "undefined"} THEN Number(x) ELSE JUndefined

transformSTPOperation(dbRecord) ==
    [id |-> JStr(String(dbRecord.id)),
     date |-> dbRecord.date,
     inlet_sewage |-> Or(Number(dbRecord.inlet_sewage), JNum(0)),
     tse_for_irrigation |-> Or(Number(dbRecord.tse_for_irrigation), JNum(0)),
     tanker_trips |-> Or(Number(dbRecord.tanker_trips), JNum(0)),
     generated_income |-> NumberOrUndefined(dbRecord.generated_income),
     water_savings |-> NumberOrUndefined(dbRecord.water_savings),
     total_impact |-> NumberOrUndefined(dbRecord.total_impact)]

STPDay1 ==
    STPRow(JNum(1), JStr("2025-01-01"), JNum(300), JNum(200), JNum(10),
           JNum(45), JNum(264), JNum(309))

STPDay2 == STPRow(JNum(2), JStr("2025-01-02"), JNull, JNull, JNull, JNull, JNull, JNull)

STPReplies ==
    {Failed(e) : e \in QueryErrors} \cup {NoData, Rows(<<>>), Rows(<<STPDay1, STPDay2>>)}

\* error, or no rows: []; otherwise data.map(transformSTPOperation)
STPOutcome(reply) ==
    IF reply.error # NoError \/ Len(OrEmpty(reply.data)) = 0
    THEN Return(<<>>)
    ELSE Return([i \in 1..Len(reply.data.a) |-> transformSTPOperation(reply.data.a[i])])

getSTPOperationsFromSupabase(t) ==
    \/ /\ task[t].pc = "idle"
       /\ Begin(t, "getSTPOperationsFromSupabase", <<>>, Return(<<>>),
             Select("stp_operations", "*", "date", TRUE), "await")
    \/ /\ task[t].op = "getSTPOperationsFromSupabase"
       /\ task[t].pc = "await"
       /\ \E reply \in STPReplies :
              Settle(t, reply, STPOutcome(reply))

\* The STP page's rates.  lib/config sets them; they are two fixed positive
\* numbers, held here in thousandths of a rial.
STP_RATES == [TANKER_FEE |-> 4500, TSE_SAVING_RATE |-> 1320]

TANKER_FEE == STP_RATES.TANKER_FEE

TSE_SAVING_RATE == STP_RATES.TSE_SAVING_RATE

\* operations.reduce((sum, op) => sum + op[field], 0) over the first n
RECURSIVE Total(_, _, _)
Total(operations, field, n) ==
    IF n = 0 THEN 0
    ELSE Total(operations, field, n - 1) + operations[n][field].n

\* a / b, kept exact
Ratio(a, b) == [num |-> a, den |-> b]

\* STPPage_stats with the stored income and savings added up
STPPage_stats_Stored(operations) ==
    LET Stored(field, n) ==
            Total([i \in 1..Len(operations) |->
                      [v |-> Or(Number(operations[i][field]), JNum(0))]], "v", n)
        totalInlet == Total(operations, "inlet_sewage", Len(operations))
        totalTSE == Total(operations, "tse_for_irrigation", Len(operations))
        totalTrips == Total(operations, "tanker_trips", Len(operations))
        generatedIncome == Stored("generated_income", Len(operations))
        waterSavings == Stored("water_savings", Len(operations))
    IN  [totalInlet |-> totalInlet,
         totalTSE |-> totalTSE,
         totalTrips |-> totalTrips,
         generatedIncome |-> generatedIncome,
         waterSavings |-> waterSavings,
         totalEconomicImpact |-> generatedIncome + waterSavings,
         treatmentEfficiency |->
             IF totalInlet > 0 THEN Ratio(totalTSE * 100, totalInlet) ELSE Ratio(0, 1),
         dailyAverageInlet |->
             IF Len(operations) > 0 THEN Ratio(totalInlet, Len(operations)) ELSE Ratio(0, 1)]

\* The page's `stats` memo over the operations it shows.
STPPage_stats(operations) ==
    LET totalInlet == Total(operations, "inlet_sewage", Len(operations))
        totalTSE == Total(operations, "tse_for_irrigation", Len(operations))
        totalTrips == Total(operations, "tanker_trips", Len(operations))
        generatedIncome == totalTrips * TANKER_FEE
        waterSavings == totalTSE * TSE_SAVING_RATE
    IN  [totalInlet |-> totalInlet,
         totalTSE |-> totalTSE,
         totalTrips |-> totalTrips,
         generatedIncome |-> generatedIncome,
         waterSavings |-> waterSavings,
         totalEconomicImpact |-> generatedIncome + waterSavings,
         treatmentEfficiency |->
             IF totalInlet > 0 THEN Ratio(totalTSE * 100, totalInlet) ELSE Ratio(0, 1),
         dailyAverageInlet |->
             IF Len(operations) > 0 THEN Ratio(totalInlet, Len(operations)) ELSE Ratio(0, 1)]

(***************************************************************************)
(* Water meters.                                                           *)
(***************************************************************************)
MonthColumns ==
    <<"jan_25", "feb_25", "mar_25", "apr_25", "may_25", "jun_25",
      "jul_25", "aug_25", "sep_25", "oct_25", "nov_25", "dec_25">>

WaterColumns ==
    {"id", "label", "account_number", "level", "zone", "parent_meter", "type"}
        \cup {MonthColumns[i] : i \in 1..Len(MonthColumns)}

MonthKeys ==
    <<"Jan-25", "Feb-25", "Mar-25", "Apr-25", "May-25", "Jun-25",
      "Jul-25", "Aug-25", "Sep-25", "Oct-25", "Nov-25">>

\* transformWaterMeter with `|| 0` on every month column
transformWaterMeter_ZeroFill(dbMeter) ==
    [label |-> Or(dbMeter.label, JStr("Unknown Meter")),
     accountNumber |-> Or(dbMeter.account_number, JStr("")),
     level |-> Or(dbMeter.level, JStr("N/A")),
     zone |-> Or(dbMeter.zone, JStr("")),
     parentMeter |-> Or(dbMeter.parent_meter, JStr("")),
     type |-> Or(dbMeter.type, JStr("")),
     consumption |->
         [k \in {MonthKeys[i] : i \in 1..Len(MonthKeys)} |->
             Or(dbMeter[MonthColumns[CHOOSE i \in 1..Len(MonthKeys) : MonthKeys[i] = k]],
                JNum(0))]]

\* transformWaterMeter with the dec_25 column mapped as well
transformWaterMeter_WithDec(dbMeter) ==
    [label |-> Or(dbMeter.label, JStr("Unknown Meter")),
     accountNumber |-> Or(dbMeter.account_number, JStr("")),
     level |-> Or(dbMeter.level, JStr("N/A")),
     zone |-> Or(dbMeter.zone, JStr("")),
     parentMeter |-> Or(dbMeter.parent_meter, JStr("")),
     type |-> Or(dbMeter.type, JStr("")),
     consumption |->
         [k \in {MonthKeys[i] : i \in 1..Len(MonthKeys)} \cup {"Dec-25"} |->
             IF k = "Dec-25" THEN dbMeter.dec_25
             ELSE dbMeter[MonthColumns[CHOOSE i \in 1..Len(MonthKeys) : MonthKeys[i] = k]]]]

transformWaterMeter(dbMeter) ==
    LET consumption ==
            [k \in {"Jan-25", "Feb-25", "Mar-25", "Apr-25", "May-25", "Jun-25",
                    "Jul-25", "Aug-25", "Sep-25", "Oct-25", "Nov-25"} |->
                CASE k = "Jan-25" -> dbMeter.jan_25
                  [] k = "Feb-25" -> dbMeter.feb_25
                  [] k = "Mar-25" -> dbMeter.mar_25
                  [] k = "Apr-25" -> dbMeter.apr_25
                  [] k = "May-25" -> dbMeter.may_25
                  [] k = "Jun-25" -> dbMeter.jun_25
                  [] k = "Jul-25" -> dbMeter.jul_25
                  [] k = "Aug-25" -> dbMeter.aug_25
                  [] k = "Sep-25" -> dbMeter.sep_25
                  [] k = "Oct-25" -> dbMeter.oct_25
                  [] k = "Nov-25" -> dbMeter.nov_25]
    IN  [label |-> Or(dbMeter.label, JStr("Unknown Meter")),
         accountNumber |-> Or(dbMeter.account_number, JStr("")),
         level |-> Or(dbMeter.level, JStr("N/A")),
         zone |-> Or(dbMeter.zone, JStr("")),
         parentMeter |-> Or(dbMeter.parent_meter, JStr("")),
         type |-> Or(dbMeter.type, JStr("")),
         consumption |-> consumption]

\* A row of "Water System": the text columns all `text`, the month columns
\* `filled` holding `v`, the other month columns holding `w`.
WaterRow(text, filled, v, w) ==
    [c \in WaterColumns |->
        IF c = "id" THEN JNum(1)
        ELSE IF c \in {"label", "account_number", "level", "zone", "parent_meter", "type"}
        THEN text
        ELSE IF c \in filled THEN v ELSE w]

WaterSample == WaterRow(JStr("L1"), {"jan_25", "mar_25"}, JNum(50), JNull)

WaterReplies ==
    {Failed(e) : e \in QueryErrors} \cup {NoData, Rows(<<>>), Rows(<<WaterSample>>)}

\* error, or no rows: []; otherwise data.map(transformWaterMeter)
WaterOutcome(reply) ==
    IF reply.error # NoError \/ Len(OrEmpty(reply.data)) = 0
    THEN Return(<<>>)
    ELSE Return([i \in 1..Len(reply.data.a) |-> transformWaterMeter(reply.data.a[i])])

getWaterMetersFromSupabase(t) ==
    \/ /\ task[t].pc = "idle"
       /\ Begin(t, "getWaterMetersFromSupabase", <<>>, Return(<<>>),
             [api |-> "select", table |-> "Water System", columns |-> "*"], "await")
    \/ /\ task[t].op = "getWaterMetersFromSupabase"
       /\ task[t].pc = "await"
       /\ \E reply \in WaterReplies :
              Settle(t, reply, WaterOutcome(reply))

(***************************************************************************)
(* Auth and profile operations (auth module).                              *)
(***************************************************************************)
NotConfigured == Error("Supabase not configured")

AuthErrors == {AuthError("Invalid login credentials"), AuthError("Email rate limit exceeded")}

SomeUser == [id |-> JStr("u1"), email |-> JStr("a@b.om")]

\* What an auth call resolves to: an error with no user, or a user.
AuthReplies ==
    {[error |-> e, data |-> [user |-> JNull, session |-> JNull]] : e \in AuthErrors}
        \cup {[error |-> NoError,
               data |-> [user |-> JObj(SomeUser), session |-> JObj([user |-> SomeUser])]]}

\* if (error) throw error; return data
DataOrThrow(reply) == IF reply.error # NoError THEN Throw(reply.error) ELSE Return(reply.data)

\* VoidOrThrow with the error wrapped in a new Error
VoidOrThrow_Wrap(reply) ==
    IF reply.error # NoError THEN Throw(Error(reply.error.message)) ELSE Return(JUndefined)

\* if (error) throw error
VoidOrThrow(reply) == IF reply.error # NoError THEN Throw(reply.error) ELSE Return(JUndefined)

Credentials == [email : {"a@b.om"}, password : {"pw"}, fullName : {JUndefined, JStr("A B")}]

signUp(t) ==
    \/ /\ task[t].pc = "idle"
       /\ \E arg \in Credentials :
              Begin(t, "signUp", arg, Throw(NotConfigured),
                 [api |-> "auth.signUp", email |-> arg.email, password |-> arg.password,
                  full_name |-> Or(arg.fullName, JStr(""))], "await")
    \/ /\ task[t].op = "signUp"
       /\ task[t].pc = "await"
       /\ \E reply \in AuthReplies : Settle(t, reply, DataOrThrow(reply))

\* signIn without `if (error) throw error`
signIn_Swallow(t) ==
    \/ /\ task[t].pc = "idle"
       /\ \E arg \in [email : {"a@b.om"}, password : {"pw"}] :
              Begin(t, "signIn", arg, Throw(NotConfigured),
                 [api |-> "auth.signInWithPassword", email |-> arg.email,
                  password |-> arg.password], "await")
    \/ /\ task[t].op = "signIn"
       /\ task[t].pc = "await"
       /\ \E reply \in AuthReplies : Settle(t, reply, Return(reply.data))

signIn(t) ==
    \/ /\ task[t].pc = "idle"
       /\ \E arg \in [email : {"a@b.om"}, password : {"pw"}] :
              Begin(t, "signIn", arg, Throw(NotConfigured),
                 [api |-> "auth.signInWithPassword", email |-> arg.email,
                  password |-> arg.password], "await")
    \/ /\ task[t].op = "signIn"
       /\ task[t].pc = "await"
       /\ \E reply \in AuthReplies : Settle(t, reply, DataOrThrow(reply))

ErrorOnlyReplies == {[error |-> e] : e \in AuthErrors \cup {NoError}}

signOut(t) ==
    \/ /\ task[t].pc = "idle"
       /\ Begin(t, "signOut", <<>>, Throw(NotConfigured), [api |-> "auth.signOut"], "await")
    \/ /\ task[t].op = "signOut"
       /\ task[t].pc = "await"
       /\ \E reply \in ErrorOnlyReplies : Settle(t, reply, VoidOrThrow(reply))

resetPassword(t) ==
    \/ /\ task[t].pc = "idle"
       /\ \E arg \in [email : {"a@b.om"}, origin : {"https://app.example"}] :
              Begin(t, "resetPassword", arg, Throw(NotConfigured),
                 [api |-> "auth.resetPasswordForEmail", email |-> arg.email,
                  redirectTo |-> arg.origin \o "/auth/reset-password"], "await")
    \/ /\ task[t].op = "resetPassword"
       /\ task[t].pc = "await"
       /\ \E reply \in ErrorOnlyReplies : Settle(t, reply, VoidOrThrow(reply))

updatePassword(t) ==
    \/ /\ task[t].pc = "idle"
       /\ \E arg \in [newPassword : {"pw2"}] :
              Begin(t, "updatePassword", arg, Throw(NotConfigured),
                 [api |-> "auth.updateUser", password |-> arg.newPassword], "await")
    \/ /\ task[t].op = "updatePassword"
       /\ task[t].pc = "await"
       /\ \E reply \in ErrorOnlyReplies : Settle(t, reply, VoidOrThrow(reply))

\* The columns of a profiles row.
ProfileRow(id, email, fullName, username, avatar, website, role) ==
    [id |-> id, email |-> email, full_name |-> fullName, username |-> username,
     avatar_url |-> avatar, website |-> website, role |-> role]

ProfileRows ==
    {ProfileRow(JStr("u1"), f[1], JStr("A B"), JNull, JNull, JNull, f[2]) :
        f \in {<<JNull, JNull>>, <<JStr(""), JStr("admin")>>, <<JStr("a@b.om"), JStr("")>>,
               <<JStr("a@b.om"), JStr("admin")>>}}

\* .single(): an error and no row, no row at all, or one row
SingleReplies ==
    {[error |-> e, data |-> JNull] : e \in QueryErrors}
        \cup {[error |-> NoError, data |-> JNull]}
        \cup {[error |-> NoError, data |-> JObj(r)] : r \in ProfileRows}

\* ProfileOutcome with the row returned as stored
ProfileOutcome_NoDefaults(reply) ==
    IF reply.error # NoError \/ ~Truthy(reply.data)
    THEN Return(JNull)
    ELSE Return(reply.data)

\* if (error || !data) return null; otherwise the row with its defaults
ProfileOutcome(reply) ==
    IF reply.error # NoError \/ ~Truthy(reply.data)
    THEN Return(JNull)
    ELSE LET data == reply.data.o
         IN  Return(JObj([id |-> data.id,
                          email |-> Or(data.email, JStr("")),
                          full_name |-> data.full_name,
                          username |-> data.username,
                          avatar_url |-> data.avatar_url,
                          website |-> data.website,
                          role |-> Or(data.role, JStr("user"))]))

getUserProfile(t) ==
    \/ /\ task[t].pc = "idle"
       /\ \E arg \in [userId : {"u1"}] :
              Begin(t, "getUserProfile", arg, Return(JNull),
                 [api |-> "select", table |-> "profiles", columns |-> "*",
                  eq |-> <<"id", arg.userId>>, single |-> TRUE], "await")
    \/ /\ task[t].op = "getUserProfile"
       /\ task[t].pc = "await"
       /\ \E reply \in SingleReplies : Settle(t, reply, ProfileOutcome(reply))

ProfileUpdates == {[full_name |-> JStr("A B")], [username |-> JStr("ab"), website |-> JNull]}

\* {id: userId, ...updates, updated_at: now}
Spread(userId, updates, now) ==
    [k \in {"id", "updated_at"} \cup DOMAIN updates |->
        IF k = "updated_at" THEN JStr(now)
        ELSE IF k \in DOMAIN updates THEN updates[k]
        ELSE JStr(userId)]

UpsertReplies ==
    {[error |-> e, data |-> JNull] : e \in QueryErrors}
        \cup {[error |-> NoError,
               data |-> JObj(ProfileRow(JStr("u1"), JStr("a@b.om"), JStr("A B"),
                                        JNull, JNull, JNull, JStr("user")))]}

updateUserProfile(t) ==
    \/ /\ task[t].pc = "idle"
       /\ \E arg \in [userId : {"u1"}, updates : ProfileUpdates, now : {"2025-01-01T00:00:00.000Z"}] :
              Begin(t, "updateUserProfile", arg, Throw(NotConfigured),
                 [api |-> "upsert", table |-> "profiles",
                  row |-> Spread(arg.userId, arg.updates, arg.now),
                  select |-> TRUE, single |-> TRUE], "await")
    \/ /\ task[t].op = "updateUserProfile"
       /\ task[t].pc = "await"
       /\ \E reply \in UpsertReplies : Settle(t, reply, DataOrThrow(reply))

\* obj[key], undefined where the object has no such property
Prop(obj, key) == IF key \in DOMAIN obj THEN obj[key] ELSE JUndefined

PageUsers ==
    {SomeUser,
     [id |-> JStr("u1"), email |-> JStr("a@b.om"),
      user_metadata |-> JObj([full_name |-> JStr("A B")])]}

\* auth.getUser(): an error, no user, or a user
GetUserReplies ==
    {[error |-> AuthError("Auth session missing!"), data |-> [user |-> JNull]],
     [error |-> NoError, data |-> [user |-> JNull]]}
        \cup {[error |-> NoError, data |-> [user |-> JObj(u)]] : u \in PageUsers}

\* CurrentUserOutcome with the store's error thrown
CurrentUserOutcome_Throws(reply) ==
    IF reply.error # NoError THEN Throw(reply.error)
    ELSE IF ~Truthy(reply.data.user) THEN Return(JNull)
    ELSE LET user == reply.data.user.o
         IN  Return(JObj([id |-> user.id,
                          email |-> Or(Prop(user, "email"), JStr("")),
                          user_metadata |-> Prop(user, "user_metadata")]))

\* if (error || !user) return null; otherwise {id, email, user_metadata}
CurrentUserOutcome(reply) ==
    IF reply.error # NoError \/ ~Truthy(reply.data.user)
    THEN Return(JNull)
    ELSE LET user == reply.data.user.o
         IN  Return(JObj([id |-> user.id,
                          email |-> Or(Prop(user, "email"), JStr("")),
                          user_metadata |-> Prop(user, "user_metadata")]))

getCurrentUser(t) ==
    \/ /\ task[t].pc = "idle"
       /\ Begin(t, "getCurrentUser", <<>>, Return(JNull), [api |-> "auth.getUser"], "await")
    \/ /\ task[t].op = "getCurrentUser"
       /\ task[t].pc = "await"
       /\ \E reply \in GetUserReplies : Settle(t, reply, CurrentUserOutcome(reply))

(***************************************************************************)
(* onAuthStateChange.  The call is synchronous: it returns a subscription. *)
(* The store then pushes (event, session) pairs to the registered listener *)
(* until the caller unsubscribes.  arg.called lists what the caller's      *)
(* callback has been invoked with; got lists what the store has pushed.    *)
(***************************************************************************)
MaxEvents == 2

\* { data: { subscription: { unsubscribe: () => {} } } }
InertSubscription == [data |-> [subscription |-> [unsubscribe |-> "() => {}"]]]

\* What auth.onAuthStateChange returns
LiveSubscription == [data |-> [subscription |-> [unsubscribe |-> "removeListener"]]]

\* A user without an email address and without metadata
BareUser == [id |-> JStr("u2")]

\* The pairs the store pushes: a sign-out without session, and sessions of
\* two users
AuthEvents ==
    {[event |-> "SIGNED_OUT", session |-> JNull],
     [event |-> "SIGNED_IN",
      session |-> JObj([user |-> JObj([id |-> JStr("u1"), email |-> JStr("a@b.om"),
                                       user_metadata |-> JObj([full_name |-> JStr("A B")])])])],
     [event |-> "TOKEN_REFRESHED", session |-> JObj([user |-> JObj(BareUser)])]}

\* session?.user
SessionUser(session) == IF session.t = "obj" THEN Prop(session.o, "user") ELSE JUndefined

\* AuthCallbackArg with the session's user handed on as it is
AuthCallbackArg_RawUser(session) ==
    IF Truthy(SessionUser(session)) THEN SessionUser(session) ELSE JNull

\* What the listener passes to the callback
AuthCallbackArg(session) ==
    IF Truthy(SessionUser(session))
    THEN LET user == SessionUser(session).o
         IN  JObj([id |-> user.id,
                   email |-> Or(Prop(user, "email"), JStr("")),
                   user_metadata |-> Prop(user, "user_metadata")])
    ELSE JNull

onAuthStateChange(t) ==
    \/ /\ task[t].pc = "idle"
       /\ LET g == getSupabaseClient IN
          /\ supabaseClient' = g.supabaseClient
          /\ created' = g.created
          /\ task' = [task EXCEPT ![t] =
                 IF g.ret = NoClient
                 THEN [IdleTask EXCEPT !.op = "onAuthStateChange", !.pc = "done",
                                       !.arg = [called |-> <<>>],
                                       !.out = Return(InertSubscription)]
                 ELSE [IdleTask EXCEPT !.op = "onAuthStateChange", !.pc = "listening",
                                       !.client = g.ret,
                                       !.arg = [called |-> <<>>],
                                       !.sent = <<[api |-> "auth.onAuthStateChange"]>>,
                                       !.out = Return(LiveSubscription)]]
       /\ UNCHANGED <<env, fn, page>>
    \/ /\ task[t].op = "onAuthStateChange"
       /\ task[t].pc = "listening"
       /\ Len(task[t].got) < MaxEvents
       /\ \E pushed \in AuthEvents :
              task' = [task EXCEPT
                  ![t].got = Append(task[t].got, pushed),
                  ![t].arg.called = Append(task[t].arg.called, AuthCallbackArg(pushed.session))]
       /\ UNCHANGED <<env, supabaseClient, created, fn, page>>
    \/ /\ task[t].op = "onAuthStateChange"
       /\ task[t].pc = "listening"
       /\ task' = [task EXCEPT ![t].pc = "done"]
       /\ UNCHANGED <<env, supabaseClient, created, fn, page>>

(***************************************************************************)
(* Avatar upload: auth module and the settings page each have their own.   *)
(***************************************************************************)
RECURSIVE LastDot(_, _)
LastDot(s, i) ==
    IF i = 0 THEN 0
    ELSE IF SubSeq(s, i, i) = "." THEN i
    ELSE LastDot(s, i - 1)

\* name.split('.').pop()
FileExt(name) == SubSeq(name, LastDot(name, Len(name)) + 1, Len(name))

AvatarFiles == {[name |-> "me.png"], [name |-> "portrait"]}

\* Date.now(): two instants (TLC's integers are 32 bits wide, so the values
\* are shorter than a millisecond clock's)
Times == {1700000000, 1700000001}

Randoms == {"0.25", "0.5"}

StorageErrors == {StorageError("The resource already exists")}

UploadReplies(path) ==
    {[error |-> e, data |-> JNull] : e \in StorageErrors}
        \cup {[error |-> NoError, data |-> JObj([path |-> path])]}

\* storage.from(bucket).getPublicUrl(path).data.publicUrl
PublicUrl(bucket, path) ==
    supabaseUrl \o "/storage/v1/object/public/" \o bucket \o "/" \o path

\* auth module: `${userId}/${userId}-${Date.now()}.${fileExt}`
LibAvatarPath(userId, file, now) ==
    LET fileExt == FileExt(file.name)
        fileName == userId \o "-" \o NatToString(now) \o "." \o fileExt
    IN  userId \o "/" \o fileName

\* settings page: `${userId}-${Math.random()}.${fileExt}`
PageAvatarPath(userId, avatarFile, random) ==
    LET fileExt == FileExt(avatarFile.name)
        fileName == userId \o "-" \o random \o "." \o fileExt
    IN  fileName

\* AfterUpload without `if (uploadError) throw uploadError`
AfterUpload_Eager(t, reply) ==
    /\ task' = [task EXCEPT
           ![t].pc = "done",
           ![t].got = Append(task[t].got, reply),
           ![t].sent = Append(task[t].sent,
               [api |-> "storage.getPublicUrl", bucket |-> "avatars",
                path |-> task[t].sent[1].path]),
           ![t].out = Return(JStr(PublicUrl("avatars", task[t].sent[1].path)))]
    /\ UNCHANGED <<env, supabaseClient, created, fn, page>>

\* After the upload: throw its error, or resolve the public URL and return it.
AfterUpload(t, reply) ==
    IF reply.error # NoError
    THEN Settle(t, reply, Throw(reply.error))
    ELSE /\ task' = [task EXCEPT
                ![t].pc = "done",
                ![t].got = Append(task[t].got, reply),
                ![t].sent = Append(task[t].sent,
                    [api |-> "storage.getPublicUrl", bucket |-> "avatars",
                     path |-> task[t].sent[1].path]),
                ![t].out = Return(JStr(PublicUrl("avatars", task[t].sent[1].path)))]
         /\ UNCHANGED <<env, supabaseClient, created, fn, page>>

uploadAvatar(t) ==
    \/ /\ task[t].pc = "idle"
       /\ \E arg \in [userId : {"u1"}, file : AvatarFiles, now : Times] :
              Begin(t, "uploadAvatar", arg, Throw(NotConfigured),
                 [api |-> "storage.upload", bucket |-> "avatars",
                  path |-> LibAvatarPath(arg.userId, arg.file, arg.now),
                  file |-> arg.file, upsert |-> TRUE], "await")
    \/ /\ task[t].op = "uploadAvatar"
       /\ task[t].pc = "await"
       /\ \E reply \in UploadReplies(task[t].sent[1].path) : AfterUpload(t, reply)

\* The page's uploadAvatar closes over the client of the current render and
\* over the avatarFile state.
SettingsPage_uploadAvatar(t) ==
    \/ /\ task[t].pc = "idle"
       /\ \E userId \in {"u1"}, avatarFile \in {JNull} \cup {JObj(f) : f \in AvatarFiles},
             random \in Randoms :
             LET g == getSupabaseClient
                 arg == [userId |-> userId, avatarFile |-> avatarFile, random |-> random]
             IN  /\ supabaseClient' = g.supabaseClient
                 /\ created' = g.created
                 /\ task' = [task EXCEPT ![t] =
                        IF ~Truthy(avatarFile) \/ g.ret = NoClient
                        THEN [op |-> "SettingsPage.uploadAvatar", pc |-> "done",
                              client |-> g.ret, arg |-> arg, sent |-> <<>>, got |-> <<>>,
                              out |-> Return(JNull)]
                        ELSE [op |-> "SettingsPage.uploadAvatar", pc |-> "await",
                              client |-> g.ret, arg |-> arg,
                              sent |-> <<[api |-> "storage.upload", bucket |-> "avatars",
                                          path |-> PageAvatarPath(userId, avatarFile.o, random),
                                          file |-> avatarFile.o, upsert |-> FALSE]>>,
                              got |-> <<>>, out |-> Pending]]
       /\ UNCHANGED <<env, fn, page>>
    \/ /\ task[t].op = "SettingsPage.uploadAvatar"
       /\ task[t].pc = "await"
       /\ \E reply \in UploadReplies(task[t].sent[1].path) : AfterUpload(t, reply)

(***************************************************************************)
(* Direct callers of the two configuration functions.                      *)
(***************************************************************************)
CallIsSupabaseConfigured(t) ==
    /\ task[t].pc = "idle"
    /\ task' = [task EXCEPT ![t] =
           [IdleTask EXCEPT !.op = "isSupabaseConfigured", !.pc = "done",
                            !.out = Return(isSupabaseConfigured)]]
    /\ UNCHANGED <<env, supabaseClient, created, fn, page>>

CallGetSupabaseClient(t) ==
    /\ task[t].pc = "idle"
    /\ LET g == getSupabaseClient IN
       /\ supabaseClient' = g.supabaseClient
       /\ created' = g.created
       /\ task' = [task EXCEPT ![t] =
              [IdleTask EXCEPT !.op = "getSupabaseClient", !.pc = "done",
                               !.client = g.ret, !.out = Return(g.ret)]]
    /\ UNCHANGED <<env, fn, page>>

(***************************************************************************)
(* The process: configuration is fixed when the module is loaded.          *)
(***************************************************************************)
UrlSettings ==
    {JUndefined, JStr(""), JStr("https://abc.supabase.co"), JStr("http://abc.supabase.co"),
     JStr("https:/"), JStr("xhttps://abc.supabase.co")}

KeySettings ==
    {JUndefined, JStr(""), JStr("eyJhbGciOi"), JStr("eyJ"), JStr("ey"), JStr("xeyJhbGciOi")}

NoCall == [name |-> "none"]

\* No page component is mounted; `mount` counts the mounts so far.
Unmounted(mount) == [name |-> "none", mount |-> mount]

NoPage == Unmounted(0)

\* Every setting of one variable next to a good setting of the other, and
\* both variables absent.
EnvSettings ==
    {e \in [NEXT_PUBLIC_SUPABASE_URL : UrlSettings, NEXT_PUBLIC_SUPABASE_ANON_KEY : KeySettings] :
        \/ e.NEXT_PUBLIC_SUPABASE_URL = JStr("https://abc.supabase.co")
        \/ e.NEXT_PUBLIC_SUPABASE_ANON_KEY = JStr("eyJhbGciOi")
        \/ e = [NEXT_PUBLIC_SUPABASE_URL |-> JUndefined,
                NEXT_PUBLIC_SUPABASE_ANON_KEY |-> JUndefined]}

Init ==
    /\ env \in EnvSettings
    /\ supabaseClient = NoClient
    /\ created = 0
    /\ task = [t \in Tasks |-> IdleTask]
    /\ fn = NoCall
    /\ page = NoPage

Next ==
    \E t \in Tasks :
        \/ CallIsSupabaseConfigured(t)
        \/ CallGetSupabaseClient(t)
        \/ getAssetsFromSupabase(t)
        \/ getContractorTrackerData(t)
        \/ getContractorSummary(t)
        \/ getContractorDetails(t)
        \/ getContractorExpiry(t)
        \/ getContractorPricing(t)
        \/ getAmcContracts(t)
        \/ getAmcExpiry(t)
        \/ getAmcContacts(t)
        \/ getAmcPricing(t)
        \/ getElectricityMetersFromSupabase(t)
        \/ getSTPOperationsFromSupabase(t)
        \/ getWaterMetersFromSupabase(t)
        \/ signUp(t)
        \/ signIn(t)
        \/ signOut(t)
        \/ getCurrentUser(t)
        \/ onAuthStateChange(t)
        \/ getUserProfile(t)
        \/ updateUserProfile(t)
        \/ uploadAvatar(t)
        \/ resetPassword(t)
        \/ updatePassword(t)
        \/ SettingsPage_uploadAvatar(t)
        \/ Finish(t)

Spec == Init /\ [][Next]_vars

(***************************************************************************)
(* The pages.  One page component is mounted at a time.  Mounting renders  *)
(* it with its initial state; its effect then runs loadData, whose calls   *)
(* are those of task page.call.  React batches the state updates of one    *)
(* run of loadData, so a run between two awaits is one step.  A page is    *)
(* left once it has loaded.                                                *)
(***************************************************************************)
MaxMounts == 2

\* The local providers of lib/mock-data: static, non-empty lists.
MockMeters ==
    <<[id |-> JStr("mock-1"), name |-> JStr("Mock Meter"), account_number |-> JStr("R0000"),
       type |-> JStr("Main"), readings |-> [m \in {"Jan-25"} |-> JNum(100)]]>>

MockOperations ==
    <<[id |-> JStr("mock-1"), date |-> JStr("2025-01-01"), inlet_sewage |-> JNum(100),
       tse_for_irrigation |-> JNum(80), tanker_trips |-> JNum(2),
       generated_income |-> JNum(2 * TANKER_FEE), water_savings |-> JNum(80 * TSE_SAVING_RATE),
       total_impact |-> JNum(2 * TANKER_FEE + 80 * TSE_SAVING_RATE)]>>

CanMount(t) ==
    /\ page.name = "none"
    /\ page.mount < MaxMounts
    /\ task[t].pc = "idle"

\* The first render of ElectricityPage.  mockCalls counts the calls of the
\* mock provider this load has made.
ElectricityPage_mount(t) ==
    /\ CanMount(t)
    /\ page' = [name |-> "electricity", mount |-> page.mount + 1, call |-> t, pc |-> "effect",
                meters |-> <<>>, loading |-> TRUE, dataSource |-> "mock", mockCalls |-> 0]
    /\ UNCHANGED <<env, supabaseClient, created, task, fn>>

\* loadData up to the fetcher's result: the fetcher's own steps.
ElectricityPage_loadData(t) ==
    /\ page.name = "electricity"
    /\ page.pc = "effect"
    /\ page.call = t
    /\ getElectricityMetersFromSupabase(t)

\* ElectricityPage_afterFetch without the test of the fetched list
ElectricityPage_afterFetch_AlwaysLive(t) ==
    /\ page.name = "electricity"
    /\ page.pc = "effect"
    /\ page.call = t
    /\ task[t].op = "getElectricityMetersFromSupabase"
    /\ task[t].pc = "done"
    /\ page' = [page EXCEPT !.meters = IF task[t].out.kind = "return"
                                        THEN task[t].out.val ELSE <<>>,
                            !.dataSource = "supabase", !.loading = FALSE, !.pc = "done"]
    /\ UNCHANGED <<env, supabaseClient, created, task, fn>>

\* The fetcher has settled: with a non-empty list the page takes it, with an
\* empty one or an exception it turns to the mock provider.
ElectricityPage_afterFetch(t) ==
    /\ page.name = "electricity"
    /\ page.pc = "effect"
    /\ page.call = t
    /\ task[t].op = "getElectricityMetersFromSupabase"
    /\ task[t].pc = "done"
    /\ LET out == task[t].out IN
       page' = IF out.kind = "return" /\ Len(out.val) > 0
               THEN [page EXCEPT !.meters = out.val, !.dataSource = "supabase",
                                 !.loading = FALSE, !.pc = "done"]
               ELSE IF out.kind = "return"
               THEN [page EXCEPT !.pc = "awaitMock", !.mockCalls = @ + 1]
               ELSE [page EXCEPT !.pc = "awaitMockInCatch", !.mockCalls = @ + 1]
    /\ UNCHANGED <<env, supabaseClient, created, task, fn>>

\* getElectricityMeters() has resolved, in the else branch or in the catch.
ElectricityPage_afterMock(t) ==
    /\ page.name = "electricity"
    /\ page.pc \in {"awaitMock", "awaitMockInCatch"}
    /\ page.call = t
    /\ page' = [page EXCEPT !.meters = MockMeters, !.dataSource = "mock",
                            !.loading = FALSE, !.pc = "done"]
    /\ UNCHANGED <<env, supabaseClient, created, task, fn>>

\* The first render of STPPage.
STPPage_mount(t) ==
    /\ CanMount(t)
    /\ page' = [name |-> "stp", mount |-> page.mount + 1, call |-> t, pc |-> "effect",
                allOperations |-> <<>>, loading |-> TRUE, isLiveData |-> FALSE,
                mockCalls |-> 0]
    /\ UNCHANGED <<env, supabaseClient, created, task, fn>>

\* loadData up to its first result: the fetcher's steps when Supabase is
\* configured, else straight to the mock provider.
STPPage_loadData(t) ==
    /\ page.name = "stp"
    /\ page.pc = "effect"
    /\ page.call = t
    /\ IF isSupabaseConfigured
       THEN getSTPOperationsFromSupabase(t)
       ELSE /\ page' = [page EXCEPT !.pc = "awaitMock", !.mockCalls = @ + 1]
            /\ UNCHANGED <<env, supabaseClient, created, task, fn>>

\* STPPage_afterFetch without the `return` that ends the live branch
STPPage_afterFetch_NoReturn(t) ==
    /\ page.name = "stp"
    /\ page.pc = "effect"
    /\ page.call = t
    /\ task[t].op = "getSTPOperationsFromSupabase"
    /\ task[t].pc = "done"
    /\ LET out == task[t].out IN
       page' = IF out.kind = "return" /\ Len(out.val) > 0
               THEN [page EXCEPT !.allOperations = out.val, !.isLiveData = TRUE,
                                 !.loading = FALSE, !.pc = "awaitMock",
                                 !.mockCalls = @ + 1]
               ELSE IF out.kind = "return"
               THEN [page EXCEPT !.pc = "awaitMock", !.mockCalls = @ + 1]
               ELSE [page EXCEPT !.pc = "awaitMockInCatch", !.mockCalls = @ + 1]
    /\ UNCHANGED <<env, supabaseClient, created, task, fn>>

\* The fetcher has settled.
STPPage_afterFetch(t) ==
    /\ page.name = "stp"
    /\ page.pc = "effect"
    /\ page.call = t
    /\ task[t].op = "getSTPOperationsFromSupabase"
    /\ task[t].pc = "done"
    /\ LET out == task[t].out IN
       page' = IF out.kind = "return" /\ Len(out.val) > 0
               THEN [page EXCEPT !.allOperations = out.val, !.isLiveData = TRUE,
                                 !.loading = FALSE, !.pc = "done"]
               ELSE IF out.kind = "return"
               THEN [page EXCEPT !.pc = "awaitMock", !.mockCalls = @ + 1]
               ELSE [page EXCEPT !.pc = "awaitMockInCatch", !.mockCalls = @ + 1]
    /\ UNCHANGED <<env, supabaseClient, created, task, fn>>

\* getSTPOperations() has resolved, in the try or in the catch.
STPPage_afterMock(t) ==
    /\ page.name = "stp"
    /\ page.pc \in {"awaitMock", "awaitMockInCatch"}
    /\ page.call = t
    /\ page' = [page EXCEPT !.allOperations = MockOperations, !.isLiveData = FALSE,
                            !.loading = FALSE, !.pc = "done"]
    /\ UNCHANGED <<env, supabaseClient, created, task, fn>>

DEMO_USER ==
    [id |-> JStr("demo-user"), email |-> JStr("demo@muscatbay.com"),
     full_name |-> JStr("Abdulrahim Albalushi"), username |-> JStr("admin_user"),
     website |-> JStr("https://muscatbay.com"), avatar_url |-> JStr("/avatars/01.png"),
     role |-> JStr("Administrator")]

\* user.user_metadata?.[key]
MetaField(user, key) ==
    LET meta == Prop(user, "user_metadata")
    IN  IF meta.t = "obj" THEN Prop(meta.o, key) ELSE JUndefined

\* useDemoData without setIsDemo(true)
useDemoData_NoFlag(p) ==
    [p EXCEPT !.user = JObj([id |-> DEMO_USER.id, email |-> DEMO_USER.email]),
              !.profile = [full_name |-> DEMO_USER.full_name, username |-> DEMO_USER.username,
                           website |-> DEMO_USER.website, avatar_url |-> JStr("")]]

\* The page state after useDemoData()
useDemoData(p) ==
    [p EXCEPT !.isDemo = TRUE,
              !.user = JObj([id |-> DEMO_USER.id, email |-> DEMO_USER.email]),
              !.profile = [full_name |-> DEMO_USER.full_name, username |-> DEMO_USER.username,
                           website |-> DEMO_USER.website, avatar_url |-> JStr("")]]

\* The first render of SettingsPage; the render itself calls getSupabaseClient.
\* alert is the message of the last window.alert.
SettingsPage_mount(t) ==
    /\ CanMount(t)
    /\ LET g == getSupabaseClient IN
       /\ supabaseClient' = g.supabaseClient
       /\ created' = g.created
       /\ page' = [name |-> "settings", mount |-> page.mount + 1, call |-> t, pc |-> "effect",
                   supabase |-> g.ret, loading |-> TRUE, updating |-> FALSE,
                   isDemo |-> FALSE, user |-> JNull,
                   profile |-> [full_name |-> JStr(""), username |-> JStr(""),
                                website |-> JStr(""), avatar_url |-> JStr("")],
                   avatarFile |-> JNull, avatarPreview |-> JNull, alert |-> JNull]
    /\ UNCHANGED <<env, task, fn>>

\* loadData of the settings page, one run per disjunct.
SettingsPage_loadData(t) ==
    /\ page.name = "settings"
    /\ page.call = t
    /\ UNCHANGED <<env, supabaseClient, created, fn>>
    /\ \/ /\ page.pc = "effect"
          /\ task[t].pc = "idle"
          /\ IF page.supabase = NoClient
             THEN /\ page' = [useDemoData(page) EXCEPT !.loading = FALSE, !.pc = "done"]
                  /\ task' = [task EXCEPT ![t] =
                         [IdleTask EXCEPT !.op = "SettingsPage.loadData", !.pc = "done",
                                          !.out = Return(JUndefined)]]
             ELSE /\ page' = [page EXCEPT !.loading = TRUE, !.pc = "loadData"]
                  /\ task' = [task EXCEPT ![t] =
                         [IdleTask EXCEPT !.op = "SettingsPage.loadData", !.pc = "awaitUser",
                                          !.client = page.supabase,
                                          !.sent = <<[api |-> "auth.getUser"]>>]]
       \/ /\ task[t].op = "SettingsPage.loadData"
          /\ task[t].pc = "awaitUser"
          /\ \E reply \in GetUserReplies :
                 IF reply.error # NoError \/ ~Truthy(reply.data.user)
                 THEN /\ page' = [useDemoData(page) EXCEPT !.loading = FALSE, !.pc = "done"]
                      /\ task' = [task EXCEPT ![t].pc = "done",
                                              ![t].got = Append(task[t].got, reply),
                                              ![t].out = Return(JUndefined)]
                 ELSE /\ page' = [page EXCEPT !.user = reply.data.user, !.isDemo = FALSE]
                      /\ task' = [task EXCEPT
                             ![t].pc = "awaitProfile",
                             ![t].got = Append(task[t].got, reply),
                             ![t].sent = Append(task[t].sent,
                                 [api |-> "select", table |-> "profiles", columns |-> "*",
                                  eq |-> <<"id", reply.data.user.o.id.s>>, single |-> TRUE])]
       \/ /\ task[t].op = "SettingsPage.loadData"
          /\ task[t].pc = "awaitProfile"
          /\ \E reply \in SingleReplies :
                 /\ page' = [page EXCEPT
                        !.profile =
                            IF Truthy(reply.data)
                            THEN [full_name |-> Or(reply.data.o.full_name, JStr("")),
                                  username |-> Or(reply.data.o.username, JStr("")),
                                  website |-> Or(reply.data.o.website, JStr("")),
                                  avatar_url |-> Or(reply.data.o.avatar_url, JStr(""))]
                            ELSE [full_name |-> Or(MetaField(page.user.o, "full_name"), JStr("")),
                                  username |-> JStr(""),
                                  website |-> JStr(""),
                                  avatar_url |-> Or(MetaField(page.user.o, "avatar_url"), JStr(""))],
                        !.loading = FALSE, !.pc = "done"]
                 /\ task' = [task EXCEPT ![t].pc = "done",
                                         ![t].got = Append(task[t].got, reply),
                                         ![t].out = Return(JUndefined)]

\* handleAvatarChange with a file chosen (without one it returns at once)
SettingsPage_handleAvatarChange(t) ==
    /\ page.name = "settings"
    /\ page.call = t
    /\ ~page.loading
    /\ \E file \in AvatarFiles :
           page' = [page EXCEPT !.avatarFile = JObj(file),
                                !.avatarPreview = JStr("blob:" \o file.name)]
    /\ UNCHANGED <<env, supabaseClient, created, task, fn>>

Websites == {JStr("https://example.om")}

\* onChange of the website input: setProfile({ ...profile, website })
SettingsPage_editProfile(t) ==
    /\ page.name = "settings"
    /\ page.call = t
    /\ ~page.loading
    /\ \E website \in Websites : page' = [page EXCEPT !.profile.website = website]
    /\ UNCHANGED <<env, supabaseClient, created, task, fn>>

\* UpdateBranch without the demo-mode branch
UpdateBranch_NoDemo(p) ==
    IF ~Truthy(p.user) \/ p.supabase = NoClient THEN "return"
    ELSE IF Truthy(p.avatarFile) THEN "upload"
    ELSE "upsert"

\* The way updateProfile takes after setUpdating(true)
UpdateBranch(p) ==
    IF p.isDemo THEN "demo"
    ELSE IF ~Truthy(p.user) \/ p.supabase = NoClient THEN "return"
    ELSE IF Truthy(p.avatarFile) THEN "upload"
    ELSE "upsert"

\* The row updateProfile upserts, from the state of the render it was
\* started in
PageUpdates(arg, avatarUrl) ==
    [id |-> arg.user.o.id,
     full_name |-> arg.profile.full_name,
     username |-> arg.profile.username,
     website |-> arg.profile.website,
     avatar_url |-> Or(avatarUrl, arg.profile.avatar_url),
     updated_at |-> JStr(arg.now)]

\* upsert without select: an error or nothing
PageUpsertReplies == {[error |-> e, data |-> JNull] : e \in QueryErrors \cup {NoError}}

\* UpdateFailed that also drops the selected file and its preview
UpdateFailed_ClearsFile(p, message) ==
    [p EXCEPT !.alert = JStr("Error updating profile: " \o message),
              !.avatarFile = JNull, !.avatarPreview = JNull, !.updating = FALSE]

\* catch and finally of updateProfile
UpdateFailed(p, message) ==
    [p EXCEPT !.alert = JStr("Error updating profile: " \o message), !.updating = FALSE]

\* UpdateSucceeded without the finally block
UpdateSucceeded_NoFinally(p, avatarUrl) ==
    [p EXCEPT !.profile.avatar_url = IF Truthy(avatarUrl) THEN avatarUrl ELSE @,
              !.avatarPreview = JNull, !.avatarFile = JNull,
              !.alert = JStr("Profile updated successfully!")]

\* The end of updateProfile's try block, and finally
UpdateSucceeded(p, avatarUrl) ==
    [p EXCEPT !.profile.avatar_url = IF Truthy(avatarUrl) THEN avatarUrl ELSE @,
              !.avatarPreview = JNull, !.avatarFile = JNull,
              !.alert = JStr("Profile updated successfully!"),
              !.updating = FALSE]

\* A click on a Save button (disabled while updating): updateProfile up to
\* its first await, or to its early return.
SettingsPage_updateProfile(t) ==
    /\ page.name = "settings"
    /\ page.call = t
    /\ ~page.loading
    /\ ~page.updating
    /\ task[t].pc = "done"
    /\ \E random \in Randoms :
           LET arg == [user |-> page.user, profile |-> page.profile,
                       avatarFile |-> page.avatarFile, random |-> random,
                       now |-> "2025-01-01T00:00:00.000Z"]
               branch == UpdateBranch(page)
               call == [IdleTask EXCEPT !.op = "SettingsPage.updateProfile",
                                        !.client = page.supabase, !.arg = arg]
           IN  /\ page' = [page EXCEPT !.updating = TRUE]
               /\ task' = [task EXCEPT ![t] =
                      CASE branch = "demo" -> [call EXCEPT !.pc = "awaitTimer"]
                        [] branch = "return" ->
                               [call EXCEPT !.pc = "done", !.out = Return(JUndefined)]
                        [] branch = "upload" ->
                               [call EXCEPT
                                   !.pc = "awaitUpload",
                                   !.sent = <<[api |-> "storage.upload", bucket |-> "avatars",
                                               path |-> PageAvatarPath(String(arg.user.o.id),
                                                                       arg.avatarFile.o, random),
                                               file |-> arg.avatarFile.o, upsert |-> FALSE]>>]
                        [] branch = "upsert" ->
                               [call EXCEPT
                                   !.pc = "awaitUpsert",
                                   !.sent = <<[api |-> "upsert", table |-> "profiles",
                                               row |-> PageUpdates(arg, arg.profile.avatar_url)]>>]]
    /\ UNCHANGED <<env, supabaseClient, created, fn>>

\* updateProfile after the call it awaited has resolved.
SettingsPage_updateProfileResumed(t) ==
    /\ page.name = "settings"
    /\ page.call = t
    /\ task[t].op = "SettingsPage.updateProfile"
    /\ UNCHANGED <<env, supabaseClient, created, fn>>
    /\ \/ /\ task[t].pc = "awaitTimer"
          /\ page' = [page EXCEPT
                 !.updating = FALSE,
                 !.alert = JStr("Settings saved! (Demo Mode - changes not persisted)")]
          /\ task' = [task EXCEPT ![t].pc = "done", ![t].out = Return(JUndefined)]
       \/ /\ task[t].pc = "awaitUpload"
          /\ \E reply \in UploadReplies(task[t].sent[1].path) :
                 IF reply.error # NoError
                 THEN /\ page' = UpdateFailed(page, reply.error.message)
                      /\ task' = [task EXCEPT ![t].pc = "done",
                                              ![t].got = Append(task[t].got, reply),
                                              ![t].out = Return(JUndefined)]
                 ELSE LET path == task[t].sent[1].path
                          avatarUrl == JStr(PublicUrl("avatars", path))
                      IN  /\ page' = page
                          /\ task' = [task EXCEPT
                                 ![t].pc = "awaitUpsert",
                                 ![t].got = Append(task[t].got, reply),
                                 ![t].sent = task[t].sent \o
                                     <<[api |-> "storage.getPublicUrl", bucket |-> "avatars",
                                        path |-> path],
                                       [api |-> "upsert", table |-> "profiles",
                                        row |-> PageUpdates(task[t].arg, avatarUrl)]>>]
       \/ /\ task[t].pc = "awaitUpsert"
          /\ \E reply \in PageUpsertReplies :
                 LET avatarUrl == IF Len(task[t].sent) > 1
                                  THEN JStr(PublicUrl("avatars", task[t].sent[1].path))
                                  ELSE task[t].arg.profile.avatar_url
                 IN  /\ page' = IF reply.error # NoError
                                THEN UpdateFailed(page, reply.error.message)
                                ELSE UpdateSucceeded(page, avatarUrl)
                     /\ task' = [task EXCEPT ![t].pc = "done",
                                             ![t].got = Append(task[t].got, reply),
                                             ![t].out = Return(JUndefined)]

\* Navigation away from a loaded page; its component state is dropped.
Unmount(t) ==
    /\ page.name # "none"
    /\ page.pc = "done"
    /\ page.call = t
    /\ page' = Unmounted(page.mount)
    /\ task' = [task EXCEPT ![t] = IdleTask]
    /\ UNCHANGED <<env, supabaseClient, created, fn>>

NextPages ==
    \E t \in Tasks :
        \/ ElectricityPage_mount(t)
        \/ ElectricityPage_loadData(t)
        \/ ElectricityPage_afterFetch(t)
        \/ ElectricityPage_afterMock(t)
        \/ STPPage_mount(t)
        \/ STPPage_loadData(t)
        \/ STPPage_afterFetch(t)
        \/ STPPage_afterMock(t)
        \/ SettingsPage_mount(t)
        \/ SettingsPage_loadData(t)
        \/ SettingsPage_handleAvatarChange(t)
        \/ SettingsPage_editProfile(t)
        \/ SettingsPage_updateProfile(t)
        \/ SettingsPage_updateProfileResumed(t)
        \/ Unmount(t)

SpecPages == Init /\ [][NextPages]_vars

(***************************************************************************)
(* The pages when an awaited call may also reject.  The steps above let    *)
(* every awaited call resolve; here the mock providers and the settings    *)
(* page's store calls may reject as well, which takes loadData through its *)
(* catch and finally blocks.                                               *)
(***************************************************************************)
\* What a rejected promise carries
Rejected == [rejected |-> Error("Failed to fetch")]

\* getElectricityMeters() rejects: in the else branch the outer catch calls it
\* again; in the catch the inner catch swallows the error and finally runs.
ElectricityPage_mockRejected(t) ==
    /\ page.name = "electricity"
    /\ page.pc \in {"awaitMock", "awaitMockInCatch"}
    /\ page.call = t
    /\ page' = IF page.pc = "awaitMock"
               THEN [page EXCEPT !.pc = "awaitMockInCatch", !.mockCalls = @ + 1]
               ELSE [page EXCEPT !.loading = FALSE, !.pc = "done"]
    /\ UNCHANGED <<env, supabaseClient, created, task, fn>>

\* STPPage_mockRejected whose rejection in the catch skips the finally block
STPPage_mockRejected_NoFinally(t) ==
    /\ page.name = "stp"
    /\ page.pc \in {"awaitMock", "awaitMockInCatch"}
    /\ page.call = t
    /\ page' = IF page.pc = "awaitMock"
               THEN [page EXCEPT !.pc = "awaitMockInCatch", !.mockCalls = @ + 1]
               ELSE [page EXCEPT !.pc = "rejected"]
    /\ UNCHANGED <<env, supabaseClient, created, task, fn>>

\* getSTPOperations() rejects: in the try the catch calls it again; in the
\* catch the rejection leaves loadData through finally.
STPPage_mockRejected(t) ==
    /\ page.name = "stp"
    /\ page.pc \in {"awaitMock", "awaitMockInCatch"}
    /\ page.call = t
    /\ page' = IF page.pc = "awaitMock"
               THEN [page EXCEPT !.pc = "awaitMockInCatch", !.mockCalls = @ + 1]
               ELSE [page EXCEPT !.loading = FALSE, !.pc = "done"]
    /\ UNCHANGED <<env, supabaseClient, created, task, fn>>

\* auth.getUser() or the profiles query rejects: catch runs useDemoData and
\* finally clears loading.
SettingsPage_loadRejected(t) ==
    /\ page.name = "settings"
    /\ page.call = t
    /\ task[t].op = "SettingsPage.loadData"
    /\ task[t].pc \in {"awaitUser", "awaitProfile"}
    /\ page' = [useDemoData(page) EXCEPT !.loading = FALSE, !.pc = "done"]
    /\ task' = [task EXCEPT ![t].pc = "done",
                            ![t].got = Append(task[t].got, Rejected),
                            ![t].out = Return(JUndefined)]
    /\ UNCHANGED <<env, supabaseClient, created, fn>>

\* The upload or the upsert of updateProfile rejects: catch reports the
\* error and finally clears updating.
SettingsPage_updateRejected(t) ==
    /\ page.name = "settings"
    /\ page.call = t
    /\ task[t].op = "SettingsPage.updateProfile"
    /\ task[t].pc \in {"awaitUpload", "awaitUpsert"}
    /\ page' = UpdateFailed(page, Rejected.rejected.message)
    /\ task' = [task EXCEPT ![t].pc = "done",
                            ![t].got = Append(task[t].got, Rejected),
                            ![t].out = Return(JUndefined)]
    /\ UNCHANGED <<env, supabaseClient, created, fn>>

\* The steps the event loop takes by itself once the awaited call settles
\* (or, for the first run of an effect, once the page has rendered).
Settles(t) ==
    \/ ElectricityPage_loadData(t)
    \/ ElectricityPage_afterFetch(t)
    \/ ElectricityPage_afterMock(t)
    \/ ElectricityPage_mockRejected(t)
    \/ STPPage_loadData(t)
    \/ STPPage_afterFetch(t)
    \/ STPPage_afterMock(t)
    \/ STPPage_mockRejected(t)
    \/ SettingsPage_loadData(t)
    \/ SettingsPage_loadRejected(t)
    \/ SettingsPage_updateProfileResumed(t)
    \/ SettingsPage_updateRejected(t)

NextLoad ==
    \/ NextPages
    \/ \E t \in Tasks :
        \/ ElectricityPage_mockRejected(t)
        \/ STPPage_mockRejected(t)
        \/ SettingsPage_loadRejected(t)
        \/ SettingsPage_updateRejected(t)

\* Every awaited call eventually settles; mounting and leaving a page are
\* the user's and need not happen.
SpecLoad == Init /\ [][NextLoad]_vars /\ WF_vars(\E t \in Tasks : Settles(t))

(***************************************************************************)
(* The pure transforms, each applied once to an input drawn from a bounded *)
(* set.  fn records the application.                                       *)
(***************************************************************************)
MaxMeters == 2

MaxReadings == 2

MaxFilled == 2

\* All sequences over S of length at most n
SeqsUpTo(S, n) == UNION {[1..k -> S] : k \in 0..n}

MeterInputs == SeqsUpTo({MeterM1, MeterM2}, MaxMeters)

ReadingInputs ==
    SeqsUpTo({ElectricityReading(JNum(id), month, consumption) :
                  id \in 1..3, month \in {"Jan-25", "Feb-25"},
                  consumption \in {JStr("120"), JNum(7), JNull, JStr("n/a"), JNaN}},
             MaxReadings)

WaterInputs ==
    {WaterRow(text, filled, v, w) :
        text \in {JNull, JStr(""), JStr("L2")},
        filled \in {f \in SUBSET {MonthColumns[i] : i \in 1..Len(MonthColumns)} :
                        Cardinality(f) <= MaxFilled},
        v \in {JNull, JNum(0), JNum(50)},
        w \in {JNull, JNum(0), JNum(50)}}

Apply(name, arg, ret) ==
    /\ fn = NoCall
    /\ fn' = [name |-> name, arg |-> arg, ret |-> ret]
    /\ UNCHANGED <<env, supabaseClient, created, task, page>>

ApplyJoinReadings ==
    /\ fn = NoCall
    /\ \E meters \in MeterInputs, readings \in ReadingInputs :
        Apply("JoinReadings", [meters |-> meters, readings |-> readings],
              JoinReadings(meters, readings))

ApplyTransformWaterMeter ==
    /\ fn = NoCall
    /\ \E dbMeter \in WaterInputs :
        Apply("transformWaterMeter", dbMeter, transformWaterMeter(dbMeter))

MaxOperations == 2

STPInputs ==
    {STPRow(JNum(1), JStr("2025-01-01"), JNum(300), tse, trips, income, savings, JNull) :
        tse \in {JNull, JNum(200)},
        trips \in {JNull, JNum(10), JStr("10")},
        income \in {JNull, JNum(10 * TANKER_FEE), JNum(99)},
        savings \in {JNull, JNum(200 * TSE_SAVING_RATE), JStr("1")}}

ApplyTransformSTPOperation ==
    /\ fn = NoCall
    /\ \E dbRecord \in STPInputs :
        Apply("transformSTPOperation", dbRecord, transformSTPOperation(dbRecord))

\* The stats of the operations the fetcher made of some rows.
ApplySTPPage_stats ==
    /\ fn = NoCall
    /\ \E rows \in SeqsUpTo(STPInputs, MaxOperations) :
        LET operations == [i \in 1..Len(rows) |-> transformSTPOperation(rows[i])]
        IN  Apply("STPPage.stats", operations, STPPage_stats(operations))

MaxRows == 2

\* Search terms free of the characters that end a condition of the filter
\* string (comma, parentheses, quotes).
SearchTerms ==
    {"", "pump", "PUMP", "mp a", "valve", "tag-", "hvac", "yard", "zzz", "p_mp", "%", "*"}

\* The asset fetcher's query for a search term, run on a table.
ApplyAssetSearch ==
    /\ fn = NoCall
    /\ \E search \in SearchTerms, table \in SeqsUpTo({PumpA, ValveB, BareAsset}, MaxRows) :
        Apply("AssetSearch", [search |-> search, table |-> table],
              Filtered(AssetQuery([page |-> 1, pageSize |-> 50, search |-> search]), table))

\* Rows of mb_assets with each display column null, empty or filled.
AssetInputs ==
    {AssetRow(JNum(7), name, type, category, location, building, status, install, tag, assetId) :
        name \in {JNull, JStr(""), JStr("Pump A")},
        type \in {JNull, JStr(""), JStr("Pump")},
        category \in {JNull, JStr(""), JStr("HVAC")},
        location \in {JNull, JStr(""), JStr("Plant Room")},
        building \in {JNull, JStr(""), JStr("B1")},
        status \in {JNull, JStr(""), JStr("Retired")},
        install \in {JNull, JStr(""), JStr("2020-01-01")},
        tag \in {JNull, JStr(""), JStr("TAG-1")},
        assetId \in {JNull, JStr(""), JStr("A-1")}}

ApplyTransformAsset ==
    /\ fn = NoCall
    /\ \E dbAsset \in AssetInputs :
        Apply("transformAsset", dbAsset, transformAsset(dbAsset))

MaxPage == 3

MaxPageSize == 3

\* What the store answers to a page request: its total in `count`, or none.
PageReplies ==
    {Failed(e) : e \in QueryErrors}
        \cup {[Rows(<<PumpA>>) EXCEPT !.count = c] : c \in {JNull, JNum(0), JNum(1), JNum(7)}}
        \cup {[NoData EXCEPT !.count = JNum(7)]}

\* Two calls for successive pages with the same page size and search term:
\* the two queries, and what the first call makes of the store's answer.
ApplyGetAssetPages ==
    /\ fn = NoCall
    /\ \E pageNo \in 1..MaxPage, pageSize \in (1..MaxPageSize) \cup {50}, search \in {"", "pump"},
          reply \in PageReplies :
        LET arg == [page |-> pageNo, pageSize |-> pageSize, search |-> search]
        IN  Apply("getAssetsFromSupabase", [call |-> arg, reply |-> reply],
                  [query |-> AssetQuery(arg),
                   next |-> AssetQuery([arg EXCEPT !.page = pageNo + 1]),
                   out |-> AssetsOutcome(reply)])

(***************************************************************************)
(* The date-range slider of the Electricity analysis tab and the STP page. *)
(* Both pages hold dateRangeIndex, a pair of slider values (0..100, step   *)
(* 1, kept in order by the slider), and turn it into a range of months.    *)
(***************************************************************************)
MaxMonths == 4

\* SliderIndex with the month count in place of the last index
SliderIndex_ByLength(value, n) == (value * n) \div 100

\* Math.floor((value / 100) * (n - 1)).  For slider values 0..100 and fewer
\* than 51 months the double-precision result is the exact floor.
SliderIndex(value, n) == (value * (n - 1)) \div 100

\* allMonths of the Electricity page, sorted by year and month
ElectricityMonths == <<"Jan-25", "Feb-25", "Mar-25", "Apr-25", "May-25">>

\* allMonths of the STP page: "yyyy-MM" texts in sorted order, held as the
\* numbers yyyyMM, whose order is that of the texts
STPMonths == <<202411, 202412, 202501, 202502, 202503>>

\* The pairs the slider can hold
SliderRanges == {r \in (0..100) \X (0..100) : r[1] <= r[2]}

\* analysisData up to selectedMonths: allMonths.slice(startIdx, endIdx + 1)
ElectricityPage_analysisData(allMonths, dateRangeIndex) ==
    IF Len(allMonths) = 0
    THEN [empty |-> TRUE, selectedMonths |-> <<>>]
    ELSE LET startIdx == SliderIndex(dateRangeIndex[1], Len(allMonths))
             endIdx == SliderIndex(dateRangeIndex[2], Len(allMonths))
         IN  [empty |-> FALSE, startIdx |-> startIdx, endIdx |-> endIdx,
              selectedMonths |-> SubSeq(allMonths, startIdx + 1, endIdx + 1)]

\* operations, with one operation per month: those whose month lies between
\* allMonths[startIdx] and allMonths[endIdx]
STPPage_operations(allMonths, dateRangeIndex) ==
    IF Len(allMonths) = 0
    THEN [empty |-> TRUE, selectedMonths |-> allMonths]
    ELSE LET startIdx == SliderIndex(dateRangeIndex[1], Len(allMonths))
             endIdx == SliderIndex(dateRangeIndex[2], Len(allMonths))
             startMonth == allMonths[startIdx + 1]
             endMonth == allMonths[endIdx + 1]
             Kept(opMonth) == opMonth >= startMonth /\ opMonth <= endMonth
         IN  [empty |-> FALSE, startIdx |-> startIdx, endIdx |-> endIdx,
              selectedMonths |-> SelectSeq(allMonths, Kept)]

\* handleReset: setDateRangeIndex([0, 100]); setAnalysisType("All")
ElectricityPage_handleReset(state) ==
    [state EXCEPT !.dateRangeIndex = <<0, 100>>, !.analysisType = "All"]

\* handleResetRange: setDateRangeIndex([0, 100])
STPPage_handleResetRange(state) == [state EXCEPT !.dateRangeIndex = <<0, 100>>]

ApplyElectricityPage_analysisData ==
    /\ fn = NoCall
    /\ \E n \in 0..MaxMonths, dateRangeIndex \in SliderRanges :
        LET allMonths == SubSeq(ElectricityMonths, 1, n)
        IN  Apply("ElectricityPage.analysisData",
                  [allMonths |-> allMonths, dateRangeIndex |-> dateRangeIndex],
                  ElectricityPage_analysisData(allMonths, dateRangeIndex))

ApplySTPPage_operations ==
    /\ fn = NoCall
    /\ \E n \in 0..MaxMonths, dateRangeIndex \in SliderRanges :
        LET allMonths == SubSeq(STPMonths, 1, n)
        IN  Apply("STPPage.operations",
                  [allMonths |-> allMonths, dateRangeIndex |-> dateRangeIndex],
                  STPPage_operations(allMonths, dateRangeIndex))

ApplyElectricityPage_handleReset ==
    /\ fn = NoCall
    /\ \E dateRangeIndex \in {r \in SliderRanges : r[1] % 25 = 0 /\ r[2] % 25 = 0},
          analysisType \in {"All", "Main"} :
        LET state == [dateRangeIndex |-> dateRangeIndex, analysisType |-> analysisType]
        IN  Apply("ElectricityPage.handleReset", state, ElectricityPage_handleReset(state))

ApplySTPPage_handleResetRange ==
    /\ fn = NoCall
    /\ \E dateRangeIndex \in {r \in SliderRanges : r[1] % 25 = 0 /\ r[2] % 25 = 0} :
        LET state == [dateRangeIndex |-> dateRangeIndex]
        IN  Apply("STPPage.handleResetRange", state, STPPage_handleResetRange(state))

InitFn ==
    /\ env = [NEXT_PUBLIC_SUPABASE_URL |-> JUndefined, NEXT_PUBLIC_SUPABASE_ANON_KEY |-> JUndefined]
    /\ supabaseClient = NoClient
    /\ created = 0
    /\ task = [t \in Tasks |-> IdleTask]
    /\ fn = NoCall
    /\ page = NoPage

NextFn ==
    \/ ApplyJoinReadings
    \/ ApplyTransformWaterMeter
    \/ ApplyTransformSTPOperation
    \/ ApplySTPPage_stats
    \/ ApplyAssetSearch
    \/ ApplyTransformAsset
    \/ ApplyGetAssetPages
    \/ ApplyElectricityPage_analysisData
    \/ ApplySTPPage_operations
    \/ ApplyElectricityPage_handleReset
    \/ ApplySTPPage_handleResetRange

SpecFn == InitFn /\ [][NextFn]_vars

(***************************************************************************)
(* Properties.                                                             *)
(***************************************************************************)
Active(t) == task[t].op # "none"

Done(t) == task[t].pc = "done"

ReadFetchers ==
    {"getAssetsFromSupabase", "getContractorTrackerData", "getContractorSummary",
     "getContractorDetails", "getContractorExpiry", "getContractorPricing",
     "getAmcContracts", "getAmcExpiry", "getAmcContacts", "getAmcPricing",
     "getElectricityMetersFromSupabase", "getSTPOperationsFromSupabase",
     "getWaterMetersFromSupabase"}

\* The value a read fetcher documents for "nothing"
Neutral(op) ==
    IF op = "getAssetsFromSupabase" THEN [data |-> <<>>, count |-> JNum(0)] ELSE <<>>

\* The store reported an error for some query of this call.
StoreFailed(t) == \E i \in 1..Len(task[t].got) : task[t].got[i].error # NoError

\* C1: over any interleaving of callers the client is constructed at most
\* once, every non-null value getSupabaseClient returned is the cached
\* instance, the cached instance is never replaced or reset, and with an
\* invalid configuration every call returned null.
C1_SingleClient ==
    /\ [](/\ created <= 1
          /\ \A t \in Tasks :
                 task[t].client # NoClient => task[t].client = supabaseClient
          /\ ~isSupabaseConfigured =>
                 /\ supabaseClient = NoClient
                 /\ \A t \in Tasks : task[t].client = NoClient)
    /\ [][supabaseClient # NoClient => supabaseClient' = supabaseClient]_vars

\* Two callers are pending at once and hold the one instance.
C1_Witness ==
    /\ created = 1
    /\ \A t \in Tasks :
           /\ task[t].pc \notin {"idle", "done"}
           /\ task[t].client = supabaseClient
           /\ task[t].client # NoClient

\* C2: a read fetcher that got no client has returned its neutral empty
\* value and has issued no store call.
C2_NoClientNoQuery ==
    \A t \in Tasks :
        (task[t].op \in ReadFetchers /\ task[t].client = NoClient) =>
            /\ Done(t)
            /\ task[t].sent = <<>>
            /\ task[t].out = Return(Neutral(task[t].op))

\* An asset fetch and an electricity fetch both ended without a client.
C2_Witness ==
    \E t1, t2 \in Tasks :
        /\ task[t1].op = "getAssetsFromSupabase"
        /\ task[t2].op = "getElectricityMetersFromSupabase"
        /\ Done(t1) /\ Done(t2)
        /\ task[t1].client = NoClient /\ task[t2].client = NoClient

\* C3 as claimed: every read fetcher, the asset fetcher included, resolves
\* to its neutral empty value when the store reports an error.
C3_AllSwallow ==
    \A t \in Tasks :
        (task[t].op \in ReadFetchers /\ StoreFailed(t)) =>
            /\ Done(t)
            /\ task[t].out = Return(Neutral(task[t].op))

\* The message of the Error the asset fetcher throws for a store error
AssetErrorMessage(e) ==
    IF e.message # "" THEN "Supabase error: " \o e.message
    ELSE IF e.code # "" THEN "Supabase error: " \o e.code
    ELSE "Supabase error: Unknown error"

\* C3 (amended): every read fetcher other than getAssetsFromSupabase
\* resolves to its neutral empty value when the store reports an error;
\* getAssetsFromSupabase rejects with a new Error whose message is
\* "Supabase error: " followed by the store error's message, else its code,
\* else "Unknown error".
C3_SwallowExceptAssets ==
    \A t \in Tasks :
        (task[t].op \in ReadFetchers /\ StoreFailed(t)) =>
            /\ Done(t)
            /\ IF task[t].op = "getAssetsFromSupabase"
               THEN /\ task[t].out.kind = "throw"
                    /\ task[t].out.err.name = "Error"
                    /\ task[t].out.err.message = AssetErrorMessage(task[t].got[1].error)
               ELSE task[t].out = Return(<<>>)

\* The electricity fetcher swallowed an error of its second query while
\* the asset fetcher threw.
C3_Witness ==
    \E t1, t2 \in Tasks :
        /\ task[t1].op = "getElectricityMetersFromSupabase"
        /\ Len(task[t1].got) = 2
        /\ StoreFailed(t1)
        /\ task[t1].out = Return(<<>>)
        /\ task[t2].op = "getAssetsFromSupabase"
        /\ StoreFailed(t2)
        /\ task[t2].out.kind = "throw"

\* C4: when the store reports a sign-in failure, signIn rejects with that
\* very error, and signIn never resolves unless the store reported no error
\* and supplied a user.
C4_SignInRethrows ==
    \A t \in Tasks :
        (task[t].op = "signIn" /\ Done(t)) =>
            /\ StoreFailed(t) => task[t].out = Throw(task[t].got[1].error)
            /\ task[t].out.kind = "return" =>
                   /\ Len(task[t].got) = 1
                   /\ task[t].got[1].error = NoError
                   /\ Truthy(task[t].out.val.user)

\* A sign-in the store refused has been rejected with the store's message.
C4_Witness ==
    \E t \in Tasks :
        /\ task[t].op = "signIn"
        /\ Done(t)
        /\ StoreFailed(t)
        /\ task[t].out.kind = "throw"
        /\ task[t].out.err.message = "Invalid login credentials"

PropagatingOps ==
    {"signUp", "signIn", "signOut", "resetPassword", "updatePassword", "updateUserProfile"}

\* C5: each of signUp, signIn, signOut, resetPassword, updatePassword and
\* updateUserProfile, when the store returns an error, throws that same
\* error object and returns nothing.
C5_WritePathRethrows ==
    \A t \in Tasks :
        (task[t].op \in PropagatingOps /\ StoreFailed(t)) =>
            /\ Done(t)
            /\ task[t].out = Throw(task[t].got[1].error)

\* A profile upsert and a password reset have both failed and thrown.
C5_Witness ==
    \E t1, t2 \in Tasks :
        /\ task[t1].op = "updateUserProfile"
        /\ task[t2].op = "resetPassword"
        /\ StoreFailed(t1) /\ StoreFailed(t2)
        /\ task[t1].out.kind = "throw" /\ task[t2].out.kind = "throw"

\* The row getUserProfile answers with for a stored row
ExpectedProfile(row) ==
    [id |-> row.id,
     email |-> IF row.email \in {JNull, JStr("")} THEN JStr("") ELSE row.email,
     full_name |-> row.full_name,
     username |-> row.username,
     avatar_url |-> row.avatar_url,
     website |-> row.website,
     role |-> IF row.role \in {JNull, JStr("")} THEN JStr("user") ELSE row.role]

\* C6: getUserProfile never throws; it returns null without a client, on a
\* store error and when no row came back, and otherwise the row with email
\* defaulting to '' and role to 'user'.
C6_ProfileReadDegrades ==
    \A t \in Tasks :
        (task[t].op = "getUserProfile" /\ Done(t)) =>
            /\ task[t].out.kind = "return"
            /\ IF task[t].client = NoClient
               THEN task[t].sent = <<>> /\ task[t].out.val = JNull
               ELSE IF StoreFailed(t) \/ task[t].got[1].data = JNull
               THEN task[t].out.val = JNull
               ELSE task[t].out.val = JObj(ExpectedProfile(task[t].got[1].data.o))

\* One profile read failed and gave null, another returned a row whose
\* empty email and role were replaced by the defaults.
C6_Witness ==
    \E t1, t2 \in Tasks :
        /\ task[t1].op = "getUserProfile" /\ Done(t1)
        /\ StoreFailed(t1)
        /\ task[t1].out = Return(JNull)
        /\ task[t2].op = "getUserProfile" /\ Done(t2)
        /\ ~StoreFailed(t2)
        /\ task[t2].got[1].data # JNull
        /\ task[t2].got[1].data.o.email = JNull
        /\ task[t2].out.val.o.email = JStr("")
        /\ task[t2].out.val.o.role = JStr("user")

UploadOps == {"uploadAvatar", "SettingsPage.uploadAvatar"}

\* The public URL is resolved only after the upload succeeded, for the path
\* that was uploaded; a failed upload is thrown and no URL is resolved.
UploadThenResolve(t) ==
    /\ \A i \in 1..Len(task[t].sent) :
           task[t].sent[i].api = "storage.getPublicUrl" =>
               /\ i = 2
               /\ task[t].sent[1].api = "storage.upload"
               /\ Len(task[t].got) >= 1
               /\ task[t].got[1].error = NoError
               /\ task[t].sent[i].path = task[t].sent[1].path
    /\ task[t].out.kind = "return" /\ task[t].out.val # JNull =>
           /\ Len(task[t].sent) = 2
           /\ task[t].sent[2].api = "storage.getPublicUrl"
    /\ StoreFailed(t) =>
           /\ Done(t)
           /\ Len(task[t].sent) = 1
           /\ task[t].out = Throw(task[t].got[1].error)

\* The uploaded path lies under a folder named by the user id and carries a
\* timestamp.
UnderUserIdWithTimestamp(t) ==
    \A i \in 1..Len(task[t].sent) :
        task[t].sent[i].api = "storage.upload" =>
            /\ StartsWith(task[t].sent[i].path, task[t].arg.userId \o "/")
            /\ \E now \in Times : Contains(task[t].sent[i].path, NatToString(now))

\* C7 as claimed: both implementations upload under a path namespaced by
\* the user id and a timestamp, resolve the URL only after a successful
\* upload, and propagate an upload error with no URL resolved.
C7_BothNamespaced ==
    \A t \in Tasks :
        task[t].op \in UploadOps => UploadThenResolve(t) /\ UnderUserIdWithTimestamp(t)

\* C7 (amended): both implementations resolve the public URL only after the
\* upload completed without error and propagate an upload error with no URL
\* resolved; lib uploadAvatar uploads to <userId>/<userId>-<Date.now()>.<ext>,
\* while the settings page uploads to <userId>-<Math.random()>.<ext> at the
\* bucket root, with no folder and no timestamp.
C7_UploadProtocol ==
    \A t \in Tasks :
        task[t].op \in UploadOps =>
            /\ UploadThenResolve(t)
            /\ \A i \in 1..Len(task[t].sent) :
                   task[t].sent[i].api = "storage.upload" =>
                       IF task[t].op = "uploadAvatar"
                       THEN /\ UnderUserIdWithTimestamp(t)
                            /\ task[t].sent[i].path =
                                   task[t].arg.userId \o "/" \o task[t].arg.userId \o "-"
                                       \o NatToString(task[t].arg.now) \o "."
                                       \o FileExt(task[t].arg.file.name)
                       ELSE /\ task[t].sent[i].path =
                                   task[t].arg.userId \o "-" \o task[t].arg.random \o "."
                                       \o FileExt(task[t].arg.avatarFile.o.name)
                            /\ ~Contains(task[t].sent[i].path, "/")
                            /\ \A now \in Times :
                                   ~Contains(task[t].sent[i].path, NatToString(now))

\* The lib upload succeeded and returned the URL of the path it uploaded,
\* while the page's upload failed and threw.
C7_Witness ==
    \E t1, t2 \in Tasks :
        /\ task[t1].op = "uploadAvatar" /\ Done(t1)
        /\ task[t1].out.kind = "return"
        /\ task[t1].sent[1].path = "u1/u1-1700000000.png"
        /\ Len(task[t1].sent) = 2
        /\ task[t2].op = "SettingsPage.uploadAvatar" /\ Done(t2)
        /\ StoreFailed(t2)
        /\ task[t2].out.kind = "throw"

\* The claimed validity policy, read off the environment
UrlAccepted ==
    /\ env.NEXT_PUBLIC_SUPABASE_URL.t = "str"
    /\ Len(env.NEXT_PUBLIC_SUPABASE_URL.s) >= 8
    /\ SubSeq(env.NEXT_PUBLIC_SUPABASE_URL.s, 1, 8) = "https://"

KeyAccepted ==
    /\ env.NEXT_PUBLIC_SUPABASE_ANON_KEY.t = "str"
    /\ Len(env.NEXT_PUBLIC_SUPABASE_ANON_KEY.s) >= 3
    /\ SubSeq(env.NEXT_PUBLIC_SUPABASE_ANON_KEY.s, 1, 3) = "eyJ"

\* C8: isSupabaseConfigured returns true exactly when the URL is non-empty
\* and starts with 'https://' and the key is non-empty and starts with
\* 'eyJ'; getSupabaseClient returns null exactly when it returns false.
C8_ValidityPolicy ==
    \A t \in Tasks :
        /\ task[t].op = "isSupabaseConfigured" =>
               task[t].out.val = (UrlAccepted /\ KeyAccepted)
        /\ task[t].op \notin {"none", "isSupabaseConfigured"} =>
               (task[t].client = NoClient <=> ~(UrlAccepted /\ KeyAccepted))

\* The configuration is accepted: one caller was told so and another got a
\* client.
C8_Witness ==
    \E t1, t2 \in Tasks :
        /\ task[t1].op = "isSupabaseConfigured"
        /\ task[t1].out.val = TRUE
        /\ task[t2].op = "getSupabaseClient"
        /\ task[t2].out.val # NoClient

\* The positions of the readings of meter `id` for `month`
Matching(readings, id, month) ==
    {j \in 1..Len(readings) : readings[j].meter_id = id /\ readings[j].month = month}

Largest(S) == CHOOSE j \in S : \A k \in S : k <= j

\* The numeric value of a number or of a text of digits
NumericValue(consumption) ==
    CASE consumption = JStr("120") -> JNum(120)
      [] consumption = JNum(7) -> JNum(7)
      [] OTHER -> JNull

\* C9: for a non-empty list of meters and any list of readings the join
\* yields one entry per meter, in meter order; an entry's readings mapping
\* has exactly the months of the readings whose meter_id is the meter's id
\* (none for a meter without readings), each holding a number: the numeric
\* value of the consumption of the (last) reading for that meter and month.
C9_ElectricityJoin ==
    (fn.name = "JoinReadings" /\ Len(fn.arg.meters) > 0) =>
        /\ Len(fn.ret) = Len(fn.arg.meters)
        /\ \A i \in 1..Len(fn.ret) :
               LET meter == fn.arg.meters[i]
                   entry == fn.ret[i]
                   months == {fn.arg.readings[j].month :
                                 j \in {k \in 1..Len(fn.arg.readings) :
                                           fn.arg.readings[k].meter_id = meter.id}}
               IN  /\ entry.id = meter.id
                   /\ entry.name = meter.name
                   /\ DOMAIN entry.readings = months
                   /\ \A m \in months :
                          LET last == fn.arg.readings[
                                          Largest(Matching(fn.arg.readings, meter.id, m))]
                          IN  /\ entry.readings[m].t = "num"
                              /\ NumericValue(last.consumption) # JNull =>
                                     entry.readings[m] = NumericValue(last.consumption)

\* Meter 1 has the text "120" for Jan-25 and gets the number 120; meter 2
\* has no reading and gets an empty mapping.
C9_Witness ==
    /\ fn.name = "JoinReadings"
    /\ fn.arg.meters = <<MeterM1, MeterM2>>
    /\ fn.arg.readings = <<ElectricityReading(JNum(1), "Jan-25", JStr("120"))>>
    /\ fn.ret[1].id = JNum(1)
    /\ fn.ret[1].name = JStr("M1")
    /\ DOMAIN fn.ret[1].readings = {"Jan-25"}
    /\ fn.ret[1].readings["Jan-25"] = JNum(120)
    /\ DOMAIN fn.ret[2].readings = {}

\* C10: every month key of the consumption mapping holds the value of its
\* column unchanged: null stays null, a number stays that number.
C10_WaterNullsPreserved ==
    fn.name = "transformWaterMeter" =>
        \A i \in 1..Len(MonthKeys) :
            fn.ret.consumption[MonthKeys[i]] = fn.arg[MonthColumns[i]]

\* jan_25 is 50 and feb_25 is null, and so are Jan-25 and Feb-25.
C10_Witness ==
    /\ fn.name = "transformWaterMeter"
    /\ fn.arg.jan_25 = JNum(50)
    /\ fn.arg.feb_25 = JNull
    /\ fn.ret.consumption["Jan-25"] = JNum(50)
    /\ fn.ret.consumption["Feb-25"] = JNull

\* C11 as claimed: the view-model of an operation carries the income and the
\* saving computed from its trips and its irrigation volume.
C11_ViewModelDerived ==
    fn.name = "transformSTPOperation" =>
        /\ fn.ret.generated_income = JNum(fn.ret.tanker_trips.n * TANKER_FEE)
        /\ fn.ret.water_savings = JNum(fn.ret.tse_for_irrigation.n * TSE_SAVING_RATE)

\* The stored column as the view-model shows it
Stored(column) ==
    CASE column.t = "null" -> JUndefined
      [] column.t = "str" -> JNum(ParseDigits(column.s, 0))
      [] OTHER -> column

\* C11: transformSTPOperation hands on the stored generated_income and
\* water_savings columns (as numbers, undefined where the column is null),
\* whatever the raw volumes are.  The derived figures are the STP page's: its
\* stats take the income as the sum of tanker_trips times the per-trip rate
\* and the saving as the sum of tse_for_irrigation times the saving rate, and
\* the stored columns have no part in them.
C11_DerivedOnPage ==
    /\ fn.name = "transformSTPOperation" =>
           /\ fn.ret.generated_income = Stored(fn.arg.generated_income)
           /\ fn.ret.water_savings = Stored(fn.arg.water_savings)
    /\ fn.name = "STPPage.stats" =>
           /\ fn.ret.generatedIncome
                  = TANKER_FEE * Total(fn.arg, "tanker_trips", Len(fn.arg))
           /\ fn.ret.waterSavings
                  = TSE_SAVING_RATE * Total(fn.arg, "tse_for_irrigation", Len(fn.arg))
           /\ fn.ret.totalEconomicImpact = fn.ret.generatedIncome + fn.ret.waterSavings

\* Stats over two operations with trips and irrigation, whose stored income
\* differs from what the rate gives.
C11_Witness ==
    /\ fn.name = "STPPage.stats"
    /\ Len(fn.arg) = 2
    /\ fn.ret.totalTrips = 20
    /\ fn.ret.totalTSE = 400
    /\ fn.arg[1].generated_income = JNum(99)
    /\ fn.ret.generatedIncome = 20 * TANKER_FEE

\* The term occurs in the value, letter case aside.
SubstringOf(term, value) ==
    value.t = "str" /\ Contains(ToLower(value.s), ToLower(term))

\* C12: with a non-empty search term the rows the asset query keeps are
\* exactly those where the term is a case-insensitive substring of
\* asset_name, location_name, asset_tag or category; with an empty term every
\* row is kept.
C12_SearchIsSubstring ==
    fn.name = "AssetSearch" =>
        fn.ret = IF fn.arg.search = "" THEN fn.arg.table
                 ELSE SelectSeq(fn.arg.table,
                          LAMBDA row :
                              \E c \in {"asset_name", "location_name", "asset_tag", "category"} :
                                  SubstringOf(fn.arg.search, row[c]))

\* The data-source status a page shows
Status(p) ==
    IF p.loading THEN "loading"
    ELSE CASE p.name = "electricity" -> IF p.dataSource = "supabase" THEN "live" ELSE "demo"
           [] p.name = "stp" -> IF p.isLiveData THEN "live" ELSE "demo"
           [] p.name = "settings" -> IF p.isDemo THEN "demo" ELSE "live"

\* The list a page shows
Shown(p) == IF p.name = "electricity" THEN p.meters ELSE p.allOperations

MockData(p) == IF p.name = "electricity" THEN MockMeters ELSE MockOperations

\* The page's fetcher resolved with a non-empty list.
FetchedSome(p) ==
    /\ task[p.call].op \in {"getElectricityMetersFromSupabase", "getSTPOperationsFromSupabase"}
    /\ task[p.call].pc = "done"
    /\ task[p.call].out.kind = "return"
    /\ task[p.call].out.val # <<>>

\* The page marks itself live (whether or not it still shows its spinner).
MarkedLive(p) ==
    \/ p.name = "electricity" /\ p.dataSource = "supabase"
    \/ p.name = "stp" /\ p.isLiveData

\* C13: once the Electricity or the STP page has loaded, it is live exactly
\* if its fetcher resolved with a non-empty list, and it then shows that
\* list; otherwise it is demo and shows the mock provider's list.  A page
\* never marks itself live without showing the list its fetcher gave it.
C13_FallbackDecision ==
    page.name \in {"electricity", "stp"} =>
        /\ page.pc = "done" =>
               IF FetchedSome(page)
               THEN Status(page) = "live" /\ Shown(page) = task[page.call].out.val
               ELSE Status(page) = "demo" /\ Shown(page) = MockData(page)
        /\ MarkedLive(page) =>
               /\ FetchedSome(page)
               /\ Shown(page) = task[page.call].out.val
               /\ Shown(page) # MockData(page)

\* The Electricity page is live with the two joined meters, on the second
\* mount of the session.
C13_Witness ==
    /\ page.name = "electricity"
    /\ page.pc = "done"
    /\ page.mount = 2
    /\ Status(page) = "live"
    /\ Len(page.meters) = 2

\* What the settings page shows in demo mode
DemoShown(p) ==
    /\ p.user = JObj([id |-> JStr("demo-user"), email |-> JStr("demo@muscatbay.com")])
    /\ p.profile.full_name = JStr("Abdulrahim Albalushi")
    /\ p.profile.username = JStr("admin_user")

\* C14: without a usable endpoint and credential no call issues a store call
\* or throws, and each of the three pages, once loaded, is in demo mode with
\* the mock or demo data.
C14_SilentDegrade ==
    ~isSupabaseConfigured =>
        /\ \A t \in Tasks :
               /\ task[t].sent = <<>>
               /\ task[t].client = NoClient
               /\ task[t].out.kind # "throw"
        /\ (page.name # "none" /\ page.pc = "done") =>
               /\ Status(page) = "demo"
               /\ IF page.name = "settings" THEN DemoShown(page)
                  ELSE Shown(page) = MockData(page)
        /\ (page.name # "none" /\ page.pc # "done") => page.loading

\* The environment lacks the credential and the settings page, mounted
\* second, has loaded in demo mode.
C14_Witness ==
    /\ env.NEXT_PUBLIC_SUPABASE_ANON_KEY = JUndefined
    /\ page.name = "settings"
    /\ page.mount = 2
    /\ page.pc = "done"
    /\ page.isDemo

\* C20: a page starts in loading when it mounts; once loaded it shows live
\* or demo; and while it stays mounted a status other than loading never
\* changes again, neither back to loading nor between live and demo.
C20_StatusMachine ==
    /\ [](page.name # "none" =>
              /\ Status(page) \in {"loading", "live", "demo"}
              /\ page.pc = "done" <=> Status(page) # "loading")
    /\ [][(page.name = "none" /\ page'.name # "none") => Status(page') = "loading"]_vars
    /\ [][(page.name # "none" /\ page'.name # "none" /\ Status(page) # "loading")
              => Status(page') = Status(page)]_vars

\* The settings page, mounted second, has loaded live with the user's profile.
C20_Witness ==
    /\ page.name = "settings"
    /\ page.mount = 2
    /\ page.pc = "done"
    /\ Status(page) = "live"
    /\ page.profile.full_name = JStr("A B")

\* C16: the consumption mapping has the eleven keys Jan-25 .. Nov-25 and no
\* other, Dec-25 least of all, and each key holds the value of its own
\* column jan_25 .. nov_25.
C16_ElevenMonths ==
    fn.name = "transformWaterMeter" =>
        LET consumption == fn.ret.consumption IN
        /\ DOMAIN consumption =
               {"Jan-25", "Feb-25", "Mar-25", "Apr-25", "May-25", "Jun-25",
                "Jul-25", "Aug-25", "Sep-25", "Oct-25", "Nov-25"}
        /\ Cardinality(DOMAIN consumption) = 11
        /\ "Dec-25" \notin DOMAIN consumption
        /\ consumption["Jan-25"] = fn.arg["jan_25"]
        /\ consumption["Feb-25"] = fn.arg["feb_25"]
        /\ consumption["Mar-25"] = fn.arg["mar_25"]
        /\ consumption["Apr-25"] = fn.arg["apr_25"]
        /\ consumption["May-25"] = fn.arg["may_25"]
        /\ consumption["Jun-25"] = fn.arg["jun_25"]
        /\ consumption["Jul-25"] = fn.arg["jul_25"]
        /\ consumption["Aug-25"] = fn.arg["aug_25"]
        /\ consumption["Sep-25"] = fn.arg["sep_25"]
        /\ consumption["Oct-25"] = fn.arg["oct_25"]
        /\ consumption["Nov-25"] = fn.arg["nov_25"]

\* A row whose dec_25 and nov_25 hold 50 and whose other months are null.
C16_Witness ==
    /\ fn.name = "transformWaterMeter"
    /\ fn.arg["dec_25"] = JNum(50)
    /\ fn.arg["nov_25"] = JNum(50)
    /\ fn.arg["jan_25"] = JNull
    /\ fn.ret.consumption["Nov-25"] = JNum(50)

\* C17 as claimed: every query a read fetcher issues asks for an ordering.
C17_EveryQueryOrdered ==
    \A t \in Tasks :
        task[t].op \in ReadFetchers =>
            \A i \in 1..Len(task[t].sent) : "order" \in DOMAIN task[t].sent[i]

\* The sort column of each table that is read in order, and whether ascending
FixedOrder ==
    [table \in {"mb_assets", "Contractor_Tracker", "amc_contractor_summary",
                "amc_contractor_details", "amc_contractor_expiry", "amc_contractor_pricing",
                "amc_contracts", "amc_expiry", "amc_contacts", "amc_pricing",
                "electricity_meters", "stp_operations"} |->
        CASE table = "mb_assets" -> <<"asset_name", TRUE>>
          [] table = "Contractor_Tracker" -> <<"Contractor", TRUE>>
          [] table = "amc_contractor_summary" -> <<"no", TRUE>>
          [] table = "amc_contractor_details" -> <<"contractor", TRUE>>
          [] table = "amc_contractor_expiry" -> <<"days_remaining", TRUE>>
          [] table = "amc_contractor_pricing" -> <<"contractor", TRUE>>
          [] table = "amc_contracts" -> <<"name", TRUE>>
          [] table = "amc_expiry" -> <<"expiry_date", TRUE>>
          [] table = "amc_contacts" -> <<"contact_name", TRUE>>
          [] table = "amc_pricing" -> <<"contract_value", FALSE>>
          [] table = "electricity_meters" -> <<"name", TRUE>>
          [] table = "stp_operations" -> <<"date", TRUE>>]

\* C17: the queries on the asset, contractor, AMC, electricity-meter and STP
\* tables ask for an ordering on a column fixed per table, ascending save for
\* amc_pricing, whatever the arguments of the call; the water-meter query and
\* the electricity-readings query ask for no ordering.
C17_FixedOrdering ==
    \A t \in Tasks :
        task[t].op \in ReadFetchers =>
            \A i \in 1..Len(task[t].sent) :
                LET q == task[t].sent[i] IN
                IF q.table \in DOMAIN FixedOrder
                THEN <<q.order, q.ascending>> = FixedOrder[q.table]
                ELSE /\ q.table \in {"Water System", "electricity_readings"}
                     /\ "order" \notin DOMAIN q

\* A searched second page of assets is in flight next to the readings query.
C17_Witness ==
    /\ task[1].op = "getAssetsFromSupabase"
    /\ task[1].arg.search = "pump"
    /\ task[1].pc = "await"
    /\ task[2].op = "getElectricityMetersFromSupabase"
    /\ task[2].pc = "awaitReadings"

\* A column that is null or the empty string
Blank(v) == v = JNull \/ v = JStr("")

\* The first of the values that is not blank, else the placeholder
FirstFilled(values, placeholder) ==
    IF \E i \in 1..Len(values) : ~Blank(values[i])
    THEN values[CHOOSE i \in 1..Len(values) :
                    ~Blank(values[i]) /\ \A j \in 1..(i - 1) : Blank(values[j])]
    ELSE JStr(placeholder)

\* C18: transformAsset puts placeholders where display columns are null or
\* empty (name, type, location, status, serialNumber, purchaseDate as
\* listed), id is the string form of the row id, and no field of the result
\* is null or undefined.
C18_AssetPlaceholders ==
    fn.name = "transformAsset" =>
        LET row == fn.arg
            asset == fn.ret
        IN  /\ asset.id = JStr("7")
            /\ asset.name = FirstFilled(<<row.asset_name>>, "Unknown Asset")
            /\ asset.type = FirstFilled(<<row.asset_type, row.category>>, "General")
            /\ asset.location
                   = FirstFilled(<<row.location_name, row.building>>, "Unknown Location")
            /\ asset.status = FirstFilled(<<row.status>>, "Active")
            /\ asset.serialNumber = FirstFilled(<<row.asset_tag, row.asset_id>>, "")
            /\ asset.purchaseDate = FirstFilled(<<row.install_date>>, "")
            /\ \A f \in DOMAIN asset : asset[f].t \notin {"null", "undefined"}

\* A row with an empty name, no type but a category, a null location with an
\* empty building, and an empty tag next to an asset id.
C18_Witness ==
    /\ fn.name = "transformAsset"
    /\ fn.arg.asset_name = JStr("")
    /\ fn.arg.asset_type = JNull
    /\ fn.arg.category = JStr("HVAC")
    /\ fn.arg.location_name = JNull
    /\ fn.arg.building = JStr("")
    /\ fn.arg.asset_tag = JStr("")
    /\ fn.arg.asset_id = JStr("A-1")
    /\ fn.ret.name = JStr("Unknown Asset")
    /\ fn.ret.type = JStr("HVAC")
    /\ fn.ret.location = JStr("Unknown Location")
    /\ fn.ret.serialNumber = JStr("A-1")

\* C19: for page p and page size s the query asks for the inclusive range
\* [(p-1)*s, p*s-1], which spans s rows; the range of page p+1 starts right
\* after it; the query asks for the exact count, and the count returned is
\* the store's total, 0 where the store gave none, whatever p and s are.
C19_Pagination ==
    fn.name = "getAssetsFromSupabase" =>
        LET p == fn.arg.call.page
            s == fn.arg.call.pageSize
            range == fn.ret.query.range
            next == fn.ret.next.range
        IN  /\ range = <<(p - 1) * s, p * s - 1>>
            /\ range[2] - range[1] + 1 = s
            /\ next[1] = range[2] + 1
            /\ (range[1]..range[2]) \cap (next[1]..next[2]) = {}
            /\ next[2] - next[1] + 1 = s
            /\ fn.ret.query.count = "exact"
            /\ fn.ret.out.kind = "return" =>
                   fn.ret.out.val.count
                       = IF fn.arg.reply.count = JNull THEN JNum(0) ELSE fn.arg.reply.count

\* Page 2 of size 3: rows 3..5, then 6..8, with the store's total of 7.
C19_Witness ==
    /\ fn.name = "getAssetsFromSupabase"
    /\ fn.arg.call.page = 2
    /\ fn.arg.call.pageSize = 3
    /\ fn.ret.query.range = <<3, 5>>
    /\ fn.ret.next.range = <<6, 8>>
    /\ fn.ret.out.kind = "return"
    /\ fn.ret.out.val.count = JNum(7)

\* The operations a page's loadData runs on its task
LoadOps ==
    {"getElectricityMetersFromSupabase", "getSTPOperationsFromSupabase",
     "SettingsPage.loadData"}

\* A store call of the mounted page's loadData has not been answered.
LoadCallOutstanding ==
    /\ page.name # "none"
    /\ task[page.call].op \in LoadOps
    /\ Len(task[page.call].sent) > Len(task[page.call].got)

\* The call loadData is suspended on has settled, or it awaits none.
LoadContinues ==
    \/ task[page.call].op \in LoadOps /\ task[page.call].pc = "done"
    \/ page.pc \in {"awaitMock", "awaitMockInCatch"}
    \/ Len(task'[page.call].got) = Len(task[page.call].got) + 1
    \/ page.name = "settings" /\ page.supabase = NoClient

\* C21: when every awaited call eventually settles, a mounted page eventually
\* shows loading = false, also when its fetch and its mock provider both
\* fail; while a store call of loadData is unanswered the page is loading,
\* and loading is cleared only by a step that continues loadData after the
\* call it awaited has settled (there is no timeout and no cancellation).
C21_LoadingTerminates ==
    /\ (page.name # "none") ~> (page.name # "none" /\ ~page.loading)
    /\ [](LoadCallOutstanding => page.loading)
    /\ [][(page.name # "none" /\ page'.name = page.name /\ page.loading /\ ~page'.loading)
              => LoadContinues]_vars

\* The Electricity page has finished loading with nothing to show: the
\* fetcher gave no meters and the mock provider failed twice.
C21_Witness ==
    /\ page.name = "electricity"
    /\ page.pc = "done"
    /\ ~page.loading
    /\ page.meters = <<>>
    /\ task[page.call].op = "getElectricityMetersFromSupabase"
    /\ task[page.call].pc = "done"

\* No store call appears twice among those an invocation has issued.
NoQueryTwice ==
    \A t \in Tasks :
        \A i, j \in 1..Len(task[t].sent) : i # j => task[t].sent[i] # task[t].sent[j]

\* C22: within one invocation no store query is issued twice, and one page
\* load calls its mock provider at most once.
C22_NoRetry ==
    /\ NoQueryTwice
    /\ page.name \in {"electricity", "stp"} => page.mockCalls <= 1

\* C23: a call of getElectricityMetersFromSupabase has at most one query
\* unanswered at a time; its readings query, if any, is its second call and
\* was issued after the meters query resolved without error and with at
\* least one meter; after a meters reply with an error or without rows the
\* call has ended with the meters query as its only store call.
C23_ConsecutiveQueries ==
    \A t \in Tasks :
        task[t].op = "getElectricityMetersFromSupabase" =>
            LET sent == task[t].sent
                got == task[t].got
            IN  /\ Len(sent) <= 2
                /\ Len(got) <= Len(sent)
                /\ Len(sent) <= Len(got) + 1
                /\ \A i \in 1..Len(sent) :
                       sent[i].table = "electricity_readings" =>
                           /\ i = 2
                           /\ sent[1].table = "electricity_meters"
                           /\ Len(got) >= 1
                           /\ got[1].error = NoError
                           /\ Len(OrEmpty(got[1].data)) >= 1
                /\ (Len(got) >= 1 /\ (got[1].error # NoError \/ OrEmpty(got[1].data) = <<>>)) =>
                       /\ Len(sent) = 1
                       /\ sent[1].table = "electricity_meters"
                       /\ task[t].pc = "done"

\* One call has ended after a failed meters query with that query alone,
\* while another, given two meters, waits for its readings.
C23_Witness ==
    \E t, u \in Tasks :
        /\ task[t].op = "getElectricityMetersFromSupabase"
        /\ task[t].pc = "done"
        /\ Len(task[t].got) = 1
        /\ task[t].got[1].error # NoError
        /\ Len(task[t].sent) = 1
        /\ task[u].op = "getElectricityMetersFromSupabase"
        /\ task[u].pc = "awaitReadings"
        /\ Len(task[u].sent) = 2
        /\ Len(task[u].got) = 1

\* The settings page's updateProfile has been called and has ended.
UpdateEnded ==
    /\ page.name = "settings"
    /\ task[page.call].op = "SettingsPage.updateProfile"
    /\ task[page.call].pc = "done"

\* C24: whenever the settings page shows loading = false it is in demo mode
\* or has both a user and a client, so updateProfile never takes its early
\* return; a call of updateProfile that has ended has left updating = false,
\* and when every awaited call settles, updating = true is always followed
\* by updating = false (unless the page is left first).
C24_UpdatingReturns ==
    /\ []((page.name = "settings" /\ ~page.loading) =>
              /\ page.isDemo \/ (Truthy(page.user) /\ page.supabase # NoClient)
              /\ UpdateBranch(page) # "return")
    /\ [](UpdateEnded => ~page.updating)
    /\ (page.name = "settings" /\ page.updating)
           ~> (page.name # "settings" \/ ~page.updating)

\* A live update uploaded the avatar, then its upsert failed; updating is
\* false again.
C24_Witness ==
    /\ UpdateEnded
    /\ ~page.isDemo
    /\ Len(task[page.call].got) = 2
    /\ task[page.call].got[1].error = NoError
    /\ task[page.call].got[2].error = PostgrestError("permission denied for table", "42501")
    /\ page.alert = JStr("Error updating profile: permission denied for table")
    /\ ~page.updating

\* The awaited call rejected or resolved with an error.
ReplyFailed(reply) == "rejected" \in DOMAIN reply \/ reply.error # NoError

ReplyMessage(reply) ==
    IF "rejected" \in DOMAIN reply THEN reply.rejected.message ELSE reply.error.message

\* The positions of the profile upserts among the store calls of a call
Upserts(sent) == {i \in 1..Len(sent) : sent[i].api = "upsert"}

\* C25: in a live updateProfile with a file selected the upsert is issued
\* only after the upload has succeeded, and after a failed upload none is
\* issued; the step in which the upload or the upsert fails leaves profile,
\* avatarFile and avatarPreview as they were, shows the error's message in
\* an alert, and ends the call without an exception.
C25_UpdateFailureKeepsState ==
    /\ []((page.name = "settings" /\ task[page.call].op = "SettingsPage.updateProfile"
              /\ ~page.isDemo) =>
              LET call == task[page.call]
              IN  /\ Truthy(call.arg.avatarFile) =>
                         /\ Upserts(call.sent) # {} =>
                                /\ call.sent[1].api = "storage.upload"
                                /\ Len(call.got) >= 1
                                /\ ~ReplyFailed(call.got[1])
                                /\ Upserts(call.sent) = {3}
                         /\ (Len(call.got) >= 1 /\ ReplyFailed(call.got[1])) =>
                                Upserts(call.sent) = {}
                  /\ ~Truthy(call.arg.avatarFile) =>
                         \A i \in 1..Len(call.sent) : call.sent[i].api = "upsert"
                  /\ call.out.kind # "throw")
    /\ [][(/\ page.name = "settings"
           /\ page'.name = "settings"
           /\ task'[page.call].op = "SettingsPage.updateProfile"
           /\ Len(task'[page.call].got) = Len(task[page.call].got) + 1
           /\ ReplyFailed(task'[page.call].got[Len(task'[page.call].got)]))
              => /\ page'.profile = page.profile
                 /\ page'.avatarFile = page.avatarFile
                 /\ page'.avatarPreview = page.avatarPreview
                 /\ page'.alert =
                        JStr("Error updating profile: "
                                 \o ReplyMessage(task'[page.call].got[Len(task'[page.call].got)]))
                 /\ task'[page.call].pc = "done"
                 /\ task'[page.call].out = Return(JUndefined)]_vars

\* The upload of the selected file failed: no upsert was issued, the file
\* is still selected and the alert shows the storage error.
C25_Witness ==
    /\ UpdateEnded
    /\ ~page.isDemo
    /\ Len(task[page.call].sent) = 1
    /\ task[page.call].sent[1].api = "storage.upload"
    /\ task[page.call].got = <<[error |-> StorageError("The resource already exists"),
                                data |-> JNull]>>
    /\ page.avatarFile = JObj([name |-> "me.png"])
    /\ page.avatarPreview = JStr("blob:me.png")
    /\ page.alert = JStr("Error updating profile: The resource already exists")

\* C26: in demo mode a call of updateProfile issues no store call, and each
\* of its steps leaves user, profile, avatarFile, avatarPreview (and isDemo
\* and loading) as they were: the click sets updating, the timer clears it.
C26_DemoUpdateFrame ==
    /\ []((page.name = "settings" /\ page.isDemo
              /\ task[page.call].op = "SettingsPage.updateProfile") =>
              /\ task[page.call].sent = <<>>
              /\ task[page.call].got = <<>>
              /\ task[page.call].pc \in {"awaitTimer", "done"}
              /\ page.updating <=> task[page.call].pc = "awaitTimer")
    /\ [][(/\ page.name = "settings"
           /\ page'.name = "settings"
           /\ page.isDemo
           /\ task'[page.call].op = "SettingsPage.updateProfile"
           /\ task'[page.call] # task[page.call])
              => /\ page' = [page EXCEPT !.updating = ~page.updating, !.alert = page'.alert]
                 /\ page'.updating <=> task'[page.call].pc = "awaitTimer"]_vars

\* A demo page that has a client and a selected file has saved: no store
\* call was made and the file is still selected.
C26_Witness ==
    /\ UpdateEnded
    /\ page.isDemo
    /\ page.supabase # NoClient
    /\ task[page.call].sent = <<>>
    /\ ~page.updating
    /\ page.alert = JStr("Settings saved! (Demo Mode - changes not persisted)")
    /\ page.avatarFile = JObj([name |-> "portrait"])
    /\ page.avatarPreview = JStr("blob:portrait")

\* The number stored for a consumption: its value where it is a number or a
\* text of digits, else 0
StoredConsumption(consumption) ==
    CASE consumption = JStr("120") -> JNum(120)
      [] consumption = JNum(7) -> JNum(7)
      [] OTHER -> JNum(0)

\* C27: the join has exactly one entry per meter; an entry holds a month
\* only if some reading carries its meter's id and that month, so a reading
\* whose meter_id is no meter's id appears nowhere; the value held is that
\* of the last such reading in store order, and it is 0 where that
\* reading's consumption is null, non-numeric or NaN.
C27_JoinEdgeCases ==
    fn.name = "JoinReadings" =>
        LET meters == fn.arg.meters
            readings == fn.arg.readings
            MeterIds == {String(meters[i].id) : i \in 1..Len(meters)}
            Unmatched == {j \in 1..Len(readings) : String(readings[j].meter_id) \notin MeterIds}
        IN  /\ Len(fn.ret) = Len(meters)
            /\ \A i \in 1..Len(fn.ret) :
                   \A m \in DOMAIN fn.ret[i].readings :
                       LET from == {j \in 1..Len(readings) :
                                       /\ String(readings[j].meter_id) = String(meters[i].id)
                                       /\ readings[j].month = m}
                       IN  /\ from # {}
                           /\ from \cap Unmatched = {}
                           /\ fn.ret[i].readings[m] =
                                  StoredConsumption(readings[Largest(from)].consumption)
            /\ \A j \in 1..Len(readings) :
                   j \notin Unmatched =>
                       \A i \in 1..Len(meters) :
                           String(meters[i].id) = String(readings[j].meter_id) =>
                               readings[j].month \in DOMAIN fn.ret[i].readings

\* Two readings of meter 1 for Jan-25, 7 and then null: the entry holds 0.
C27_Witness ==
    /\ fn.name = "JoinReadings"
    /\ fn.arg.meters = <<MeterM1, MeterM2>>
    /\ fn.arg.readings = <<ElectricityReading(JNum(1), "Jan-25", JNum(7)),
                           ElectricityReading(JNum(1), "Jan-25", JNull)>>
    /\ Len(fn.ret) = 2
    /\ fn.ret[1].readings = [m \in {"Jan-25"} |-> JNum(0)]
    /\ fn.ret[2].readings = <<>>

\* C28: with n >= 1 months and slider values a <= b, both pages compute
\* startIdx = floor(a * (n - 1) / 100) and endIdx = floor(b * (n - 1) / 100)
\* with 0 <= startIdx <= endIdx <= n - 1; the months selected are those at
\* startIdx..endIdx, at least one; the range [0, 100] selects every month;
\* and the reset handlers put the range back to [0, 100].
C28_SliderIndexing ==
    /\ (fn.name \in {"ElectricityPage.analysisData", "STPPage.operations"}
            /\ Len(fn.arg.allMonths) >= 1) =>
           LET n == Len(fn.arg.allMonths)
               a == fn.arg.dateRangeIndex[1]
               b == fn.arg.dateRangeIndex[2]
               startIdx == fn.ret.startIdx
               endIdx == fn.ret.endIdx
           IN  /\ startIdx * 100 <= a * (n - 1)
               /\ a * (n - 1) < (startIdx + 1) * 100
               /\ endIdx * 100 <= b * (n - 1)
               /\ b * (n - 1) < (endIdx + 1) * 100
               /\ 0 <= startIdx
               /\ startIdx <= endIdx
               /\ endIdx <= n - 1
               /\ Len(fn.ret.selectedMonths) = endIdx - startIdx + 1
               /\ \A k \in 1..Len(fn.ret.selectedMonths) :
                      fn.ret.selectedMonths[k] = fn.arg.allMonths[startIdx + k]
               /\ (a = 0 /\ b = 100) => fn.ret.selectedMonths = fn.arg.allMonths
    /\ fn.name \in {"ElectricityPage.handleReset", "STPPage.handleResetRange"} =>
           fn.ret.dateRangeIndex = <<0, 100>>

\* Four months and the range [34, 99] on the STP page: indices 1 and 2, the
\* second and third month.
C28_Witness ==
    /\ fn.name = "STPPage.operations"
    /\ Len(fn.arg.allMonths) = 4
    /\ fn.arg.dateRangeIndex = <<34, 99>>
    /\ fn.ret.startIdx = 1
    /\ fn.ret.endIdx = 2
    /\ fn.ret.selectedMonths = <<202412, 202501>>

\* C29: with a client, the callback of onAuthStateChange has been invoked
\* once for each pair the store has pushed, in order: with the id, the email
\* ('' when the user has none) and the user_metadata of the session's user,
\* or with null when the session is null or has no user.  Without a client
\* nothing is registered, the callback is never invoked, and the value
\* returned is a subscription whose unsubscribe is the empty function.
C29_AuthStateCallback ==
    \A t \in Tasks :
        task[t].op = "onAuthStateChange" =>
            IF task[t].client = NoClient
            THEN /\ task[t].sent = <<>>
                 /\ task[t].got = <<>>
                 /\ task[t].arg.called = <<>>
                 /\ task[t].out = Return(InertSubscription)
            ELSE /\ task[t].out.kind = "return"
                 /\ Len(task[t].arg.called) = Len(task[t].got)
                 /\ \A k \in 1..Len(task[t].got) :
                        LET session == task[t].got[k].session
                            given == task[t].arg.called[k]
                        IN  IF session = JNull \/ session.o.user = JNull
                            THEN given = JNull
                            ELSE /\ DOMAIN given.o = {"id", "email", "user_metadata"}
                                 /\ given.o.id = session.o.user.o.id
                                 /\ given.o.email =
                                        IF "email" \in DOMAIN session.o.user.o
                                        THEN session.o.user.o.email ELSE JStr("")
                                 /\ given.o.user_metadata =
                                        IF "user_metadata" \in DOMAIN session.o.user.o
                                        THEN session.o.user.o.user_metadata ELSE JUndefined

\* The store pushed the session of a user without email, then a sign-out;
\* the callback got that user with email '' and then null.
C29_Witness ==
    \E t \in Tasks :
        /\ task[t].op = "onAuthStateChange"
        /\ task[t].client # NoClient
        /\ Len(task[t].got) = 2
        /\ task[t].got[1].event = "TOKEN_REFRESHED"
        /\ task[t].got[2].event = "SIGNED_OUT"
        /\ task[t].arg.called =
               <<JObj([id |-> JStr("u2"), email |-> JStr(""), user_metadata |-> JUndefined]),
                 JNull>>

\* The auth operations that refuse to run without a client
ThrowingAuthOps ==
    {"signUp", "signIn", "signOut", "updateUserProfile", "uploadAvatar",
     "resetPassword", "updatePassword"}

\* The auth operations that answer null without a client
NullAuthOps == {"getCurrentUser", "getUserProfile"}

\* C30: an auth operation that got no client has ended without a store call:
\* with the exception Error('Supabase not configured') for signUp, signIn,
\* signOut, updateUserProfile, uploadAvatar, resetPassword and
\* updatePassword, with null for getCurrentUser and getUserProfile.
\* getCurrentUser never throws, and returns null when the store answers with
\* an error or without a user.
C30_NoClientAuthSplit ==
    \A t \in Tasks :
        /\ (task[t].op \in ThrowingAuthOps \cup NullAuthOps /\ task[t].client = NoClient) =>
               /\ task[t].pc = "done"
               /\ task[t].sent = <<>>
               /\ task[t].got = <<>>
               /\ task[t].op \in ThrowingAuthOps =>
                      /\ task[t].out.kind = "throw"
                      /\ task[t].out.err.name = "Error"
                      /\ task[t].out.err.message = "Supabase not configured"
               /\ task[t].op \in NullAuthOps => task[t].out = Return(JNull)
        /\ task[t].op = "getCurrentUser" =>
               /\ task[t].out.kind # "throw"
               /\ (task[t].pc = "done" /\ task[t].client # NoClient) =>
                      /\ Len(task[t].got) = 1
                      /\ (task[t].got[1].error # NoError \/ task[t].got[1].data.user = JNull)
                             => task[t].out = Return(JNull)
                      /\ (task[t].got[1].error = NoError /\ task[t].got[1].data.user # JNull)
                             => task[t].out.val.o.id = task[t].got[1].data.user.o.id

\* Without a client, updatePassword has thrown and getCurrentUser has
\* returned null, neither with a store call.
C30_Witness ==
    \E t, u \in Tasks :
        /\ task[t].op = "updatePassword"
        /\ task[t].client = NoClient
        /\ task[t].out = Throw(Error("Supabase not configured"))
        /\ task[t].sent = <<>>
        /\ task[u].op = "getCurrentUser"
        /\ task[u].client = NoClient
        /\ task[u].out = Return(JNull)
        /\ task[u].sent = <<>>

====
